---- MODULE Spec2Model ----
(***************************************************************************)
(* wizelit-sdk: one long-running Job driven through the tool dispatch      *)
(* layer (WizelitAgentWrapper._execute_tool), Job.run's _runner task with  *)
(* its heartbeat task, the logger fan-out (memory, durable store, stream), *)
(* the durable store's jobs / job_logs tables and the publish/subscribe    *)
(* bus.  Every action is one segment of a task between two suspension      *)
(* points of the asyncio event loop (cooperative scheduling: a segment is  *)
(* atomic, tasks interleave only at an await).                             *)
(***************************************************************************)
EXTENDS Naturals, Sequences, FiniteSets, TLC

VARIABLES
    db_manager,     \* Job._db_manager: "None", or a store that is "ok" / "failing"
    log_streamer,   \* Job._log_streamer: "None", or a bus that is "ok" / "failing"
    redis,          \* LogStreamer._redis, and the publish tasks that await the bus
    created,        \* the Job object has been constructed
    status,         \* Job._status
    result,         \* Job._result
    error,          \* Job._error
    logs,           \* Job._logs
    jobs,           \* WizelitAgentWrapper._jobs (the ids registered)
    now,            \* the wall clock, in seconds since midnight
    tpc,            \* position of _execute_tool
    rpc,            \* position of the _runner task of Job.run
    rres,           \* what _runner is about to return or raise, or did
    hb,             \* state of the heartbeat task
    hbStart,        \* _heartbeat: start
    hbDue,          \* _heartbeat: when the pending asyncio.sleep ends
    sess,           \* persist_to_db: the session's loaded row and staged values
    events,         \* number of events of the environment so far (see MaxEvents)
    extPhases,      \* when set_job_status was called: "before", "during", "after" the run
    before,         \* the job's result and error when the work returned or raised
    dbJob,          \* durable store: the jobs row of this job's id
    dbLogs,         \* durable store: the job_logs rows
    dbTasks,        \* write_log tasks created and not yet run
    pubTasks,       \* publish tasks created and not yet run
    pubSeq,         \* number of publish tasks created so far
    bus,            \* the events published on the job's channels, in arrival order
    calls,          \* every record the job's logger was called with, in call order
    pcall,          \* concurrent persist_to_db calls: each caller's position and session
    clean,          \* per caller: no other persist_to_db call overlapped its current one
    prevWrite,      \* the last persist_to_db call that completed
    writes,         \* the rows staged by the persist_to_db calls so far
    dbRows,         \* durable store: number of jobs rows with this job's id (SpecStore)
    nsets,          \* number of setter calls so far (see MaxSets)
    npersists,      \* number of persist_to_db calls so far (see MaxPersists)
    sub,            \* subscribe_logs: position of the generator
    subEnd,         \* subscribe_logs: why the generator ended
    subTimeout,     \* subscribe_logs: the timeout argument (0: None)
    subElapsed,     \* seconds of the event loop's clock since start_time was read
    tock,           \* the clock's pendulum
    inbox,          \* messages the subscription's connection holds for listen()
    handled,        \* messages listen() handed to the loop and that passed the timeout check
    yielded,        \* the events the generator yielded to its consumer
    narrived,       \* number of messages that arrived so far (see MaxMessages)
    got,            \* the list a reader of the job's logs holds
    seen,           \* what that list held when the reader got it
    rwrites,        \* number of times the reader modified the list it holds
    leaves,         \* times the status left 'running' from the runner's start to the work's end
    apiRet,         \* what the last call of the wrapper's or the job's interface returned
    napi,           \* number of such calls so far (see MaxApiCalls)
    insts,          \* the Job instances alive, in order of creation: each one's id
    registry,       \* WizelitAgentWrapper._jobs: per id the instance registered (0: none)
    ilogs,          \* per Job instance its _logs: for each line the instance that logged it
    handler,        \* logging's logger "wizelit.job.<id>": the instance whose _logs its
                    \* memory handler holds (0: the logger has no handler)
    reports,        \* the ctx.report_progress calls so far
    texc            \* the exception _execute_tool caught, and whether it raised it again

jobVars  == <<created, status, result, error, logs>>
cfgVars  == <<db_manager, log_streamer, redis>>
taskVars == <<tpc, rpc, rres, hb, hbStart, hbDue, sess>>
ghostVars == <<extPhases, before, leaves>>
envVars  == <<events, extPhases, before, leaves>>
dbVars   == <<dbJob, dbLogs, dbTasks>>
busVars  == <<pubTasks, pubSeq, bus>>
storeVars == <<pcall, clean, prevWrite, writes, dbRows, nsets, npersists>>
\* The variables of the components specified apart from the run of a job.
subVars == <<sub, subEnd, subTimeout, subElapsed, tock, inbox, handled, yielded,
             narrived>>
readerVars == <<got, seen, rwrites>>
apiVars == <<apiRet, napi>>
idVars == <<insts, registry, ilogs, handler>>
dispVars == <<reports, texc>>
auxVars == <<storeVars, subVars, readerVars, apiVars, idVars, dispVars>>
vars == <<db_manager, log_streamer, redis, created, status, result, error, logs, jobs, now,
          tpc, rpc, rres, hb, hbStart, hbDue, sess, events, extPhases, before,
          leaves, dbJob, dbLogs, dbTasks, pubTasks, pubSeq, bus, calls, auxVars>>

----------------------------------------------------------------------------
\* Bounds of the model.

\* A run has at most this many events of the environment: a logger call by the
\* work, a set_job_status call, a cancellation of the runner task, a second
\* passing, a task segment of the job overtaking a sink task that waits to run.
MaxEvents == 2
\* The clock's value when the tool is dispatched: 00:59:59.
StartTime == 3599
\* The heartbeat_interval passed to Job.run, in seconds.
HeartbeatInterval == 1
\* Concurrent persists: at most this many setter calls and persist_to_db calls.
MaxSets == 3
MaxPersists == 2
\* Subscriptions: the timeout a subscription is created with, in seconds; the
\* clock reading from which on the elapsed time is only known to be at least
\* that; the number of messages that arrive.
SubTimeout == 1
MaxSubClock == 2
MaxMessages == 3
\* Readers of the logs: the number of lines the job logs and of modifications
\* the reader makes.
MaxReaderLogs == 2
MaxReaderWrites == 1
\* Calls of the interface of a registered job and of the wrapper.
MaxApiCalls == 3
\* Job instances created beside each other.
MaxJobs == 4
\* Lines a tool function logs before it returns or raises.
MaxToolLogs == 1
\* Lines logged through the loggers of the Job instances created beside each
\* other.
MaxInstLogs == 2

----------------------------------------------------------------------------
\* Values.

JobId == "JOB-1"
None == "None"
NoneVal == [type |-> "NoneType", val |-> "None"]
NoRow == [exists |-> FALSE, status |-> "", result |-> NoneVal, error |-> None]
NoSess == [open |-> FALSE, loaded |-> NoRow, staged |-> NoRow]
NoRes == [kind |-> "pending", ret |-> NoneVal, exc |-> None]
\* The tasks that call persist_to_db on the same job at overlapping times.
Callers == {"a", "b"}
NoWrite == [done |-> FALSE, row |-> NoRow, clean |-> FALSE]
\* LogStreamer.__init__: self._redis = None; no publish task awaits the bus.
NoRedis == [client |-> "None", pinging |-> <<>>, sent |-> <<>>]

\* What the work may return: a string, a mapping, or neither.
ReturnValues == {[type |-> "str", val |-> "ok"],
                 [type |-> "dict", val |-> "{k: v}"],
                 [type |-> "int", val |-> "42"],
                 NoneVal}
\* The messages of the exceptions the work may raise.
ErrorMessages == {"boom", ""}
\* The levels the work logs at (the heartbeat logs at INFO, the runner at ERROR).
Levels == {"DEBUG", "INFO", "WARNING"}
\* The values set_job_status is called with: any string is accepted.
ExtStatuses == {"running", "completed", "paused"}

levelno(level) ==
    CASE level = "DEBUG" -> 10
      [] level = "INFO" -> 20
      [] level = "WARNING" -> 30
      [] level = "ERROR" -> 40

\* Logger.setLevel(logging.INFO) and each handler's setLevel(logging.INFO).
LoggerLevel == 20

----------------------------------------------------------------------------
\* Pure functions.

Pad2(n) == IF n < 10 THEN "0" \o ToString(n) ELSE ToString(n)

\* time.strftime("%H:%M:%S")
strftime(t) ==
    Pad2((t \div 3600) % 24) \o ":" \o Pad2((t \div 60) % 60) \o ":" \o Pad2(t % 60)

\* MemoryLogHandler.emit: f"[{record.levelname}] [{ts}] {record.getMessage()}"
formatted_message(level, t, msg) ==
    "[" \o level \o "] [" \o strftime(t) \o "] " \o msg

\* _heartbeat: the message, int(time.monotonic() - start) seconds after the start
HeartbeatMessage(elapsed) == "Still working... (" \o ToString(elapsed) \o "s)"

\* Faulty variant of ErrorMessage: the error line does not carry the exception's message.
ErrorMessageWithoutText(e) == "[System] Error"

\* _runner: f"[System] Error: {e}"
ErrorMessage(e) == "[System] Error: " \o e

\* _runner: isinstance(result, (str, dict))
IsStrOrDict(v) == v.type \in {"str", "dict"}

\* Faulty variant of StoredResult: only a string is stored, a mapping is not.
StoredResultStrOnly(v) == IF v.type = "str" THEN v ELSE result

\* Faulty variant of StoredResult: whatever the work returns is stored.
StoredResultAny(v) == v

\* _runner: the value of job.result after work returned v
StoredResult(v) == IF IsStrOrDict(v) THEN v ELSE result

\* Logger.isEnabledFor
isEnabledFor(level) == levelno(level) >= LoggerLevel

----------------------------------------------------------------------------
\* The logger of a job and the status setter.

\* The record of one logger call.
Record(level, msg, src) == [level |-> level, msg |-> msg, src |-> src, t |-> now]

\* Faulty variant of MemoryEmit: the entry is put in front.
MemoryEmitInFront(level, msg) == <<formatted_message(level, now, msg)>> \o logs

\* Faulty variant of MemoryEmit: the entry takes the place of the last one.
MemoryEmitOverLast(level, msg) ==
    IF logs = <<>>
    THEN <<formatted_message(level, now, msg)>>
    ELSE [logs EXCEPT ![Len(logs)] = formatted_message(level, now, msg)]

\* MemoryLogHandler.emit
MemoryEmit(level, msg) == Append(logs, formatted_message(level, now, msg))

\* DatabaseLogHandler.emit: schedules write_log() without awaiting it
DatabaseEmit(level, msg) ==
    IF db_manager = "None" THEN dbTasks
    ELSE dbTasks \cup {[n |-> Len(calls) + 1, level |-> level, message |-> msg]}

\* The publish tasks created so far; a segment that publishes twice threads it.
PS == [tasks |-> pubTasks, seq |-> pubSeq]

SetPS(ps) == pubTasks' = ps.tasks /\ pubSeq' = ps.seq

\* StreamingLogHandler.emit: schedules publish_log() without awaiting it
StreamingEmit(ps, level, msg) ==
    IF log_streamer = "None" THEN ps
    ELSE [tasks |-> ps.tasks \cup
                    {[n |-> ps.seq + 1, kind |-> "log", level |-> level,
                      message |-> msg, status |-> "", result |-> NoneVal,
                      error |-> None]},
          seq |-> ps.seq + 1]

\* Faulty variant of Log: only the memory handler is served.
LogMemoryOnly(ps, level, msg, src) ==
    /\ calls' = Append(calls, Record(level, msg, src))
    /\ IF isEnabledFor(level)
       THEN logs' = MemoryEmit(level, msg)
       ELSE UNCHANGED logs
    /\ UNCHANGED dbTasks
    /\ SetPS(ps)

\* Faulty variant of PublishStatus: no event is scheduled.
PublishStatusNever(ps, value, res, err) == ps

\* Job.status setter: schedules publish_status() without awaiting it; res and
\* err are the result and error the job has when the segment yields, which the
\* event carries unless they change before the task runs (see Published)
PublishStatus(ps, value, res, err) ==
    IF log_streamer = "None" THEN ps
    ELSE [tasks |-> ps.tasks \cup
                    {[n |-> ps.seq + 1, kind |-> "status", level |-> "",
                      message |-> "", status |-> value, result |-> res,
                      error |-> err]},
          seq |-> ps.seq + 1]

\* Faulty variant of Log: with a failing streamer the call is aborted.
LogAbortedByStreamer(ps, level, msg, src) ==
    /\ calls' = Append(calls, Record(level, msg, src))
    /\ IF isEnabledFor(level) /\ log_streamer # "failing"
       THEN /\ logs' = MemoryEmit(level, msg)
            /\ dbTasks' = DatabaseEmit(level, msg)
            /\ SetPS(StreamingEmit(ps, level, msg))
       ELSE /\ UNCHANGED <<logs, dbTasks>>
            /\ SetPS(ps)

\* job.logger.<level>(msg): the handlers in the order _setup_logger added them
Log(ps, level, msg, src) ==
    /\ calls' = Append(calls, Record(level, msg, src))
    /\ IF isEnabledFor(level)
       THEN /\ logs' = MemoryEmit(level, msg)
            /\ dbTasks' = DatabaseEmit(level, msg)
            /\ SetPS(StreamingEmit(ps, level, msg))
       ELSE /\ UNCHANGED <<logs, dbTasks>>
            /\ SetPS(ps)

\* Faulty variant of LogOutsideLoop: the call is lost as a whole.
LogOutsideLoopDropped(ps, level, msg, src) ==
    /\ calls' = Append(calls, Record(level, msg, src))
    /\ UNCHANGED <<logs, dbTasks>>
    /\ SetPS(ps)

\* job.logger.<level>(msg) in a thread that runs no event loop: in the durable and
\* the streaming handler asyncio.get_running_loop() raises RuntimeError, which is
\* caught and answered with a printed warning; no task is created.
LogOutsideLoop(ps, level, msg, src) ==
    /\ calls' = Append(calls, Record(level, msg, src))
    /\ IF isEnabledFor(level)
       THEN logs' = MemoryEmit(level, msg)
       ELSE UNCHANGED logs
    /\ UNCHANGED dbTasks
    /\ SetPS(ps)

\* A segment that calls no logger.
NoLog(ps) == SetPS(ps) /\ UNCHANGED <<calls, logs, dbTasks>>

----------------------------------------------------------------------------
\* persist_to_db.

\* The row that mirrors the job's in-memory state.
MirrorRow == [exists |-> TRUE, status |-> status, result |-> result, error |-> error]

\* The row as session.get loads it, and the values the session then holds.
Staged == [open |-> TRUE, loaded |-> dbJob,
           staged |-> [exists |-> TRUE, status |-> status,
                       result |-> result, error |-> error]]

\* Faulty variant of Commit: an UPDATE leaves the status column alone.
CommitWithoutStatus(s) ==
    IF ~s.loaded.exists
    THEN (IF dbJob.exists THEN dbJob ELSE s.staged)
    ELSE [exists |-> TRUE,
          status |-> dbJob.status,
          result |-> IF s.staged.result # s.loaded.result
                     THEN s.staged.result ELSE dbJob.result,
          error  |-> IF s.staged.error # s.loaded.error
                     THEN s.staged.error ELSE dbJob.error]

\* session.commit: an INSERT of the new row when none was loaded (it fails on a
\* duplicate key), else an UPDATE of the attributes that differ from the loaded row.
Commit(s) ==
    IF ~s.loaded.exists
    THEN (IF dbJob.exists THEN dbJob ELSE s.staged)
    ELSE [exists |-> TRUE,
          status |-> IF s.staged.status # s.loaded.status
                     THEN s.staged.status ELSE dbJob.status,
          result |-> IF s.staged.result # s.loaded.result
                     THEN s.staged.result ELSE dbJob.result,
          error  |-> IF s.staged.error # s.loaded.error
                     THEN s.staged.error ELSE dbJob.error]

\* No persist_to_db call apart from those of the run.
StoreIdle ==
    /\ pcall = [c \in Callers |-> [pc |-> "idle", sess |-> NoSess]]
    /\ clean = [c \in Callers |-> TRUE]
    /\ prevWrite = NoWrite
    /\ writes = {}
    /\ dbRows = 0
    /\ nsets = 0
    /\ npersists = 0

\* No subscription.
SubIdle ==
    /\ sub = "none"
    /\ subEnd = ""
    /\ subTimeout = 0
    /\ subElapsed = 0
    /\ tock = FALSE
    /\ inbox = <<>>
    /\ handled = <<>>
    /\ yielded = <<>>
    /\ narrived = 0

\* No reader holds the job's logs.
ReaderIdle ==
    /\ got = "none"
    /\ seen = <<>>
    /\ rwrites = 0

\* No call of the interface yet.
Absent == [some |-> FALSE, v |-> "None"]
NoCall == [op |-> "", id |-> "", val |-> Absent]

ApiIdle ==
    /\ apiRet = NoCall
    /\ napi = 0

\* Job ids: the instance of this run has JobId.
Ids == {"JOB-1", "JOB-2"}

\* No other Job instance and no registry beside the run's.
IdsIdle ==
    /\ insts = <<>>
    /\ registry = [i \in Ids |-> 0]
    /\ ilogs = <<>>
    /\ handler = [i \in Ids |-> 0]

\* No tool dispatched apart from the run's.
NoExc == [state |-> "none", msg |-> "None"]

DispatchIdle ==
    /\ reports = <<>>
    /\ texc = NoExc

----------------------------------------------------------------------------
Init ==
    /\ db_manager \in {"None", "ok", "failing"}
    /\ log_streamer \in {"None", "ok", "failing"}
    /\ redis = NoRedis
    /\ created = FALSE
    /\ status = "running"
    /\ result = NoneVal
    /\ error = None
    /\ logs = <<>>
    /\ jobs = {}
    /\ now = StartTime
    /\ tpc = "init"
    /\ rpc = "idle"
    /\ rres = NoRes
    /\ hb = "none"
    /\ hbStart = 0
    /\ hbDue = 0
    /\ sess = NoSess
    /\ events = 0
    /\ extPhases = {}
    /\ before = [result |-> NoneVal, error |-> None]
    /\ leaves = 0
    /\ dbJob = NoRow
    /\ dbLogs = {}
    /\ dbTasks = {}
    /\ pubTasks = {}
    /\ pubSeq = 0
    /\ bus = <<>>
    /\ calls = <<>>
    /\ StoreIdle
    /\ SubIdle
    /\ ReaderIdle
    /\ ApiIdle
    /\ IdsIdle
    /\ DispatchIdle

\* A task segment of the job that is itself c events of the environment; running
\* it while a sink task (write_log, publish) waits to run is one more.
Spend(c) ==
    LET d == IF dbTasks = {} /\ pubTasks = {} THEN c ELSE c + 1
    IN  /\ events + d <= MaxEvents
        /\ events' = events + d

----------------------------------------------------------------------------
\* Job.run: the _runner task.

PGet(k) == CASE k = 1 -> "p1_get" [] k = 2 -> "p2_get" [] k = 3 -> "p3_get"
PCommit(k) == CASE k = 1 -> "p1_commit" [] k = 2 -> "p2_commit" [] k = 3 -> "p3_commit"

\* Faulty variant of Finally: the heartbeat is left running.
FinallyWithoutCancel == hb' = hb /\ rpc' = "done"

\* finally: heartbeat_task.cancel(), then await heartbeat_task.  A heartbeat that
\* is already done is not waited for; a pending one gets the cancellation at its
\* await and the runner is resumed once it has ended.
Finally ==
    IF hb \in {"created", "sleeping"}
    THEN hb' = "cancelling" /\ rpc' = "join_hb"
    ELSE hb' = hb /\ rpc' = "done"

\* _runner after its k-th await of persist_to_db returned (1: the initial state,
\* 2: completion, 3: failure with exception message e).
AfterPersist(k, ps, e) ==
    CASE k = 1 -> hb' = "created" /\ rpc' = "work" /\ NoLog(ps)
      [] k = 2 -> Finally /\ NoLog(ps)
      [] k = 3 -> Log(ps, "ERROR", ErrorMessage(e), "runner") /\ Finally

\* Faulty variant of BeginPersist: the failure path does not persist.
BeginPersistNotOnFailure(k, ps, e) ==
    IF db_manager = "None" \/ k = 3
    THEN AfterPersist(k, ps, e)
    ELSE rpc' = PGet(k) /\ hb' = hb /\ NoLog(ps)

\* persist_to_db is entered: without a db_manager it returns at once, else it
\* opens a session and awaits session.get.
BeginPersist(k, ps, e) ==
    IF db_manager = "None"
    THEN AfterPersist(k, ps, e)
    ELSE rpc' = PGet(k) /\ hb' = hb /\ NoLog(ps)

\* Faulty variant of PersistFailure: the store's exception ends the task.
PersistFailurePropagates(k) ==
    /\ rres' = [kind |-> "raise", ret |-> NoneVal, exc |-> "store"]
    /\ rpc' = "done" /\ hb' = hb
    /\ NoLog(PS)
    /\ UNCHANGED <<error, status>>

\* persist_to_db: except Exception: print(...); the caller goes on.
PersistFailure(k) == AfterPersist(k, PS, rres.exc) /\ UNCHANGED <<rres, error, status>>

\* Job.run: asyncio.create_task(_runner()); the tool function then returns the
\* job id at once ("detach") or awaits the task ("await").
ToolCallRun(mode) ==
    /\ Spend(0)
    /\ UNCHANGED auxVars
    /\ tpc = "func"
    /\ rpc = "idle"
    /\ rpc' = "created"
    /\ tpc' = IF mode = "await" THEN "await_task" ELSE "done"
    /\ UNCHANGED <<cfgVars, jobVars, jobs, now, rres, hb, hbStart, hbDue, sess,
                   ghostVars, dbVars, busVars, calls>>

\* Faulty variant of RunnerStart: the status is left as it is.
RunnerStartKeepingStatus ==
    /\ Spend(0)
    /\ UNCHANGED auxVars
    /\ rpc = "created"
    /\ status' = status
    /\ BeginPersist(1, PS, None)
    /\ UNCHANGED <<cfgVars, created, result, error, jobs, now, tpc, rres, hbStart,
                   hbDue, sess, ghostVars, dbJob, dbLogs, bus>>

\* Faulty variant of RunnerStart: a run begins with the result and the error
\* cleared.
RunnerStartClearing ==
    /\ Spend(0)
    /\ UNCHANGED auxVars
    /\ rpc = "created"
    /\ status' = "running"
    /\ result' = NoneVal
    /\ error' = None
    /\ BeginPersist(1, PublishStatus(PS, "running", NoneVal, None), None)
    /\ UNCHANGED <<cfgVars, created, jobs, now, tpc, rres, hbStart,
                   hbDue, sess, ghostVars, dbJob, dbLogs, bus>>

\* _runner: self.status = "running"; await self.persist_to_db()
RunnerStart ==
    /\ Spend(0)
    /\ UNCHANGED auxVars
    /\ rpc = "created"
    /\ status' = "running"
    /\ BeginPersist(1, PublishStatus(PS, "running", result, error), None)
    /\ UNCHANGED <<cfgVars, created, result, error, jobs, now, tpc, rres, hbStart,
                   hbDue, sess, ghostVars, dbJob, dbLogs, bus>>

\* persist_to_db resumed from session.get: a failing store raises, which is caught;
\* else the row is staged and session.commit awaited.
RunnerPersistGet(k) ==
    /\ Spend(0)
    /\ UNCHANGED auxVars
    /\ rpc = PGet(k)
    /\ IF db_manager = "failing"
       THEN PersistFailure(k) /\ UNCHANGED sess
       ELSE /\ sess' = Staged
            /\ rpc' = PCommit(k)
            /\ NoLog(PS)
            /\ UNCHANGED <<hb, rres, error, status>>
    /\ UNCHANGED <<cfgVars, created, result, jobs, now, tpc, hbStart, hbDue,
                   ghostVars, dbJob, dbLogs, bus>>

\* persist_to_db resumed from session.commit
RunnerPersistCommit(k) ==
    /\ Spend(0)
    /\ UNCHANGED auxVars
    /\ rpc = PCommit(k)
    /\ dbJob' = Commit(sess)
    /\ sess' = NoSess
    /\ AfterPersist(k, PS, rres.exc)
    /\ UNCHANGED <<cfgVars, created, status, result, error, jobs, now, tpc, rres,
                   hbStart, hbDue, ghostVars, dbLogs, bus>>

\* The work calls job.logger at some level.
WorkLog(level) ==
    /\ Spend(1)
    /\ UNCHANGED auxVars
    /\ rpc = "work"
    /\ Log(PS, level, "step", "work")
    /\ UNCHANGED <<cfgVars, created, status, result, error, jobs, now, taskVars,
                   ghostVars, dbJob, dbLogs, bus>>

\* Faulty variant of WorkReturns: the status is set to completed and persisted
\* whatever it is.
WorkReturnsAlwaysCompleting(v) ==
    /\ Spend(0)
    /\ UNCHANGED auxVars
    /\ rpc = "work"
    /\ before' = [result |-> result, error |-> error]
    /\ result' = StoredResult(v)
    /\ rres' = [kind |-> "return", ret |-> v, exc |-> None]
    /\ status' = "completed"
    /\ BeginPersist(2, PublishStatus(PS, "completed", StoredResult(v), error), None)
    /\ leaves' = IF status = "running" THEN leaves + 1 ELSE leaves
    /\ UNCHANGED <<cfgVars, created, error, jobs, now, tpc, hbStart, hbDue, sess,
                   extPhases, dbJob, dbLogs, bus>>

\* result = await coro returns v: the result is stored, a status that is still
\* running becomes completed and is persisted; return result.
WorkReturns(v) ==
    /\ Spend(0)
    /\ UNCHANGED auxVars
    /\ rpc = "work"
    /\ before' = [result |-> result, error |-> error]
    /\ result' = StoredResult(v)
    /\ rres' = [kind |-> "return", ret |-> v, exc |-> None]
    /\ IF status = "running"
       THEN /\ status' = "completed"
            /\ BeginPersist(2, PublishStatus(PS, "completed", StoredResult(v), error), None)
       ELSE /\ status' = status
            /\ AfterPersist(2, PS, None)
    /\ leaves' = IF status = "running" THEN leaves + 1 ELSE leaves
    /\ UNCHANGED <<cfgVars, created, error, jobs, now, tpc, hbStart, hbDue, sess,
                   extPhases, dbJob, dbLogs, bus>>

\* Faulty variant of WorkRaises: the error line is logged before the state is
\* persisted.
WorkRaisesLoggingFirst(m) ==
    /\ Spend(0)
    /\ UNCHANGED auxVars
    /\ rpc = "work"
    /\ before' = [result |-> result, error |-> error]
    /\ error' = m
    /\ status' = "failed"
    /\ rres' = [kind |-> "raise", ret |-> NoneVal, exc |-> m]
    /\ Log(PublishStatus(PS, "failed", result, m), "ERROR", ErrorMessage(m), "runner")
    /\ IF db_manager = "None" THEN Finally ELSE rpc' = PGet(3) /\ hb' = hb
    /\ leaves' = IF status = "running" THEN leaves + 1 ELSE leaves
    /\ UNCHANGED <<cfgVars, created, result, jobs, now, tpc, hbStart, hbDue, sess,
                   extPhases, dbJob, dbLogs, bus>>

\* await coro raises an Exception with message m: except Exception as e
WorkRaises(m) ==
    /\ Spend(0)
    /\ UNCHANGED auxVars
    /\ rpc = "work"
    /\ before' = [result |-> result, error |-> error]
    /\ error' = m
    /\ status' = "failed"
    /\ rres' = [kind |-> "raise", ret |-> NoneVal, exc |-> m]
    /\ BeginPersist(3, PublishStatus(PS, "failed", result, m), m)
    /\ leaves' = IF status = "running" THEN leaves + 1 ELSE leaves
    /\ UNCHANGED <<cfgVars, created, result, jobs, now, tpc, hbStart, hbDue, sess,
                   extPhases, dbJob, dbLogs, bus>>

\* The cancelled heartbeat task has ended and _runner is resumed: the
\* CancelledError of the heartbeat is suppressed and the task finishes.
RunnerJoin ==
    /\ Spend(0)
    /\ UNCHANGED auxVars
    /\ rpc = "join_hb"
    /\ hb' = "cancelled"
    /\ rpc' = "done"
    /\ UNCHANGED <<cfgVars, jobVars, jobs, now, tpc, rres, hbStart, hbDue, sess,
                   ghostVars, dbVars, busVars, calls>>

\* Faulty variant of CancelRunner: a cancellation inside the try marks the job
\* failed like any other failure of the work.
CancelRunnerMarkingFailed(applied) ==
    /\ Spend(1)
    /\ UNCHANGED auxVars
    /\ rpc \in {"created", "p1_get", "p1_commit", "work", "p2_get", "p2_commit",
                "p3_get", "p3_commit", "join_hb"}
    /\ sess' = NoSess
    /\ dbJob' = IF applied /\ rpc \in {"p1_commit", "p2_commit", "p3_commit"}
                THEN Commit(sess) ELSE dbJob
    /\ IF rpc = "join_hb"
       THEN UNCHANGED <<rpc, rres, hb, status, pubTasks, pubSeq>>
       ELSE /\ rres' = [kind |-> "cancel", ret |-> NoneVal, exc |-> None]
            /\ IF rpc \in {"created", "p1_get", "p1_commit"}
               THEN rpc' = "done" /\ hb' = hb /\ UNCHANGED <<status, pubTasks, pubSeq>>
               ELSE /\ Finally
                    /\ status' = "failed"
                    /\ SetPS(PublishStatus(PS, "failed", result, error))
    /\ UNCHANGED <<cfgVars, created, result, error, logs, jobs, now, tpc, hbStart,
                   hbDue, ghostVars, dbLogs, dbTasks, bus, calls>>

\* task.cancel() on the task Job.run returned.  CancelledError is no Exception:
\* before the try it ends the task, inside the try it passes except Exception and
\* runs the finally; while the runner awaits the heartbeat it is suppressed.  A
\* commit in flight may or may not have reached the store.
CancelRunner(applied) ==
    /\ Spend(1)
    /\ UNCHANGED auxVars
    /\ rpc \in {"created", "p1_get", "p1_commit", "work", "p2_get", "p2_commit",
                "p3_get", "p3_commit", "join_hb"}
    /\ sess' = NoSess
    /\ dbJob' = IF applied /\ rpc \in {"p1_commit", "p2_commit", "p3_commit"}
                THEN Commit(sess) ELSE dbJob
    /\ IF rpc = "join_hb"
       THEN UNCHANGED <<rpc, rres, hb>>
       ELSE /\ rres' = [kind |-> "cancel", ret |-> NoneVal, exc |-> None]
            /\ IF rpc \in {"created", "p1_get", "p1_commit"}
               THEN rpc' = "done" /\ hb' = hb
               ELSE Finally
    /\ UNCHANGED <<cfgVars, jobVars, jobs, now, tpc, hbStart, hbDue, ghostVars,
                   dbLogs, dbTasks, busVars, calls>>

----------------------------------------------------------------------------
\* Job._heartbeat

\* start = time.monotonic(); while self._status == "running": await asyncio.sleep
HeartbeatStart ==
    /\ Spend(0)
    /\ UNCHANGED auxVars
    /\ hb = "created"
    /\ hbStart' = now
    /\ IF status = "running"
       THEN hb' = "sleeping" /\ hbDue' = now + HeartbeatInterval
       ELSE hb' = "finished" /\ hbDue' = hbDue
    /\ UNCHANGED <<cfgVars, jobVars, jobs, now, tpc, rpc, rres, sess, ghostVars,
                   dbVars, busVars, calls>>

\* Faulty variant of HeartbeatWake: the status is not checked again after the
\* sleep.
HeartbeatWakeWithoutRecheck ==
    /\ Spend(0)
    /\ UNCHANGED auxVars
    /\ hb = "sleeping"
    /\ now >= hbDue
    /\ Log(PS, "INFO", HeartbeatMessage(now - hbStart), "heartbeat")
    /\ hbDue' = now + HeartbeatInterval
    /\ hb' = IF status = "running" THEN hb ELSE "finished"
    /\ UNCHANGED <<cfgVars, created, status, result, error, jobs, now, tpc, rpc,
                   rres, hbStart, sess, ghostVars, dbJob, dbLogs, bus>>

\* The sleep has ended: the status is checked again, then the line is logged and
\* the loop, whose condition holds, sleeps again.
HeartbeatWake ==
    /\ Spend(0)
    /\ UNCHANGED auxVars
    /\ hb = "sleeping"
    /\ now >= hbDue
    /\ IF status # "running"
       THEN hb' = "finished" /\ hbDue' = hbDue /\ NoLog(PS)
       ELSE /\ Log(PS, "INFO", HeartbeatMessage(now - hbStart), "heartbeat")
            /\ hbDue' = now + HeartbeatInterval
            /\ hb' = hb
    /\ UNCHANGED <<cfgVars, created, status, result, error, jobs, now, tpc, rpc,
                   rres, hbStart, sess, ghostVars, dbJob, dbLogs, bus>>

\* A second passes.
Tick ==
    /\ Spend(1)
    /\ UNCHANGED auxVars
    /\ now' = now + 1
    /\ UNCHANGED <<cfgVars, jobVars, jobs, taskVars, ghostVars, dbVars, busVars, calls>>

----------------------------------------------------------------------------
\* WizelitAgentWrapper

\* Faulty variant of ToolCreateJob: the constructor assigns the status through
\* the setter, which publishes.
ToolCreateJobThroughSetter ==
    /\ Spend(0)
    /\ UNCHANGED auxVars
    /\ tpc = "init"
    /\ created' = TRUE
    /\ status' = "running"
    /\ logs' = <<>>
    /\ result' = NoneVal
    /\ error' = None
    /\ IF db_manager = "None"
       THEN jobs' = jobs \cup {JobId} /\ tpc' = "func"
       ELSE jobs' = jobs /\ tpc' = "persist_get"
    /\ NoLog(PublishStatus(PS, "running", NoneVal, None))
    /\ UNCHANGED <<cfgVars, now, rpc, rres, hb, hbStart, hbDue, sess, ghostVars,
                   dbJob, dbLogs, bus>>

\* Faulty variant of ToolCreateJob: the job is registered and the tool function
\* called without the job being persisted first.
ToolCreateJobUnpersisted ==
    /\ Spend(0)
    /\ UNCHANGED auxVars
    /\ tpc = "init"
    /\ created' = TRUE
    /\ status' = "running"
    /\ logs' = <<>>
    /\ result' = NoneVal
    /\ error' = None
    /\ jobs' = jobs \cup {JobId}
    /\ tpc' = "func"
    /\ UNCHANGED <<cfgVars, now, rpc, rres, hb, hbStart, hbDue, sess, ghostVars,
                   dbVars, busVars, calls>>

\* _execute_tool for a long-running tool without a job: Job(ctx, db_manager,
\* log_streamer); with a db_manager, await job.persist_to_db(); then the job is
\* registered and the tool function called.
ToolCreateJob ==
    /\ Spend(0)
    /\ UNCHANGED auxVars
    /\ tpc = "init"
    /\ created' = TRUE
    /\ status' = "running"
    /\ logs' = <<>>
    /\ result' = NoneVal
    /\ error' = None
    /\ IF db_manager = "None"
       THEN jobs' = jobs \cup {JobId} /\ tpc' = "func"
       ELSE jobs' = jobs /\ tpc' = "persist_get"
    /\ UNCHANGED <<cfgVars, now, rpc, rres, hb, hbStart, hbDue, sess, ghostVars,
                   dbVars, busVars, calls>>

\* persist_to_db of _execute_tool resumed from session.get
ToolPersistGet ==
    /\ Spend(0)
    /\ UNCHANGED auxVars
    /\ tpc = "persist_get"
    /\ IF db_manager = "failing"
       THEN jobs' = jobs \cup {JobId} /\ tpc' = "func" /\ UNCHANGED sess
       ELSE jobs' = jobs /\ tpc' = "persist_commit" /\ sess' = Staged
    /\ UNCHANGED <<cfgVars, jobVars, now, rpc, rres, hb, hbStart, hbDue, ghostVars,
                   dbVars, busVars, calls>>

\* persist_to_db of _execute_tool resumed from session.commit
ToolPersistCommit ==
    /\ Spend(0)
    /\ UNCHANGED auxVars
    /\ tpc = "persist_commit"
    /\ dbJob' = Commit(sess)
    /\ sess' = NoSess
    /\ jobs' = jobs \cup {JobId}
    /\ tpc' = "func"
    /\ UNCHANGED <<cfgVars, jobVars, now, rpc, rres, hb, hbStart, hbDue, ghostVars,
                   dbLogs, dbTasks, busVars, calls>>

\* The tool function, awaiting the task of Job.run, is resumed: the task's value
\* is returned; its exception reaches except Exception, which marks the job
\* failed and awaits ctx.report_progress; a CancelledError passes through.
ToolTaskDone ==
    /\ Spend(0)
    /\ UNCHANGED auxVars
    /\ tpc = "await_task"
    /\ rpc = "done"
    /\ CASE rres.kind = "return" -> tpc' = "done" /\ status' = status /\ NoLog(PS)
         [] rres.kind = "raise" ->
                /\ tpc' = "report"
                /\ status' = "failed"
                /\ NoLog(PublishStatus(PS, "failed", result, error))
         [] rres.kind = "cancel" -> tpc' = "cancelled" /\ status' = status /\ NoLog(PS)
    /\ UNCHANGED <<cfgVars, created, result, error, jobs, now, rpc, rres, hb,
                   hbStart, hbDue, sess, ghostVars, dbJob, dbLogs, bus>>

\* ctx.report_progress(progress=0, message=...) returned: raise
ToolReport ==
    /\ Spend(0)
    /\ UNCHANGED auxVars
    /\ tpc = "report"
    /\ tpc' = "raised"
    /\ UNCHANGED <<cfgVars, jobVars, jobs, now, rpc, rres, hb, hbStart, hbDue, sess,
                   ghostVars, dbVars, busVars, calls>>

\* set_job_status(job_id, s) on a registered job: job.status = s
SetJobStatus(s) ==
    /\ Spend(1)
    /\ UNCHANGED auxVars
    /\ JobId \in jobs
    /\ extPhases' = extPhases \cup {CASE rpc = "idle" -> "before"
                                       [] rpc = "done" -> "after"
                                       [] OTHER -> "during"}
    /\ UNCHANGED before
    /\ leaves' = IF status = "running" /\ s # "running"
                    /\ rpc \in {"p1_get", "p1_commit", "work"}
                 THEN leaves + 1 ELSE leaves
    /\ status' = s
    /\ NoLog(PublishStatus(PS, s, result, error))
    /\ UNCHANGED <<cfgVars, created, result, error, jobs, now, taskVars,
                   dbJob, dbLogs, bus>>

----------------------------------------------------------------------------
\* The sinks' tasks.

\* DatabaseLogHandler.emit.write_log: the row is inserted and committed; a failure
\* (the store is down, or job_logs.job_id references no jobs row) is caught.
WriteLog(t) ==
    /\ t \in dbTasks
    /\ UNCHANGED auxVars
    /\ dbTasks' = dbTasks \ {t}
    /\ dbLogs' = IF db_manager = "ok" /\ dbJob.exists
                 THEN dbLogs \cup {[n |-> t.n, level |-> t.level, message |-> t.message]}
                 ELSE dbLogs
    /\ UNCHANGED <<cfgVars, jobVars, jobs, now, taskVars, envVars, dbJob, busVars, calls>>

\* What a publish task puts on the bus: publish_status reads the job's result
\* and error when the task runs, not when the status was assigned.
Published(e) ==
    IF e.kind = "status" THEN [e EXCEPT !.result = result, !.error = error] ELSE e

\* publish_log / publish_status_change: the event is published on the job's
\* channel; a failure is caught.
Publish(e) ==
    /\ e \in pubTasks
    /\ UNCHANGED auxVars
    /\ pubTasks' = pubTasks \ {e}
    /\ bus' = IF log_streamer = "ok" THEN Append(bus, Published(e)) ELSE bus
    /\ UNCHANGED <<cfgVars, jobVars, jobs, now, taskVars, envVars, dbVars, pubSeq, calls>>

----------------------------------------------------------------------------
Next ==
    \/ ToolCreateJob
    \/ ToolPersistGet
    \/ ToolPersistCommit
    \/ \E mode \in {"await", "detach"} : ToolCallRun(mode)
    \/ ToolTaskDone
    \/ ToolReport
    \/ RunnerStart
    \/ \E k \in 1..3 : RunnerPersistGet(k)
    \/ \E k \in 1..3 : RunnerPersistCommit(k)
    \/ \E level \in Levels : WorkLog(level)
    \/ \E v \in ReturnValues : WorkReturns(v)
    \/ \E m \in ErrorMessages : WorkRaises(m)
    \/ RunnerJoin
    \/ \E applied \in BOOLEAN : CancelRunner(applied)
    \/ HeartbeatStart
    \/ HeartbeatWake
    \/ Tick
    \/ \E s \in ExtStatuses : SetJobStatus(s)
    \/ \E t \in dbTasks : WriteLog(t)
    \/ \E e \in pubTasks : Publish(e)

Spec == Init /\ [][Next]_vars

----------------------------------------------------------------------------
\* persist_to_db called by tasks that overlap, the job's fields being set in
\* between, on a healthy store.

\* The job's fields and everything of the run stay as they are.
RunIdle ==
    UNCHANGED <<cfgVars, created, logs, jobs, now, taskVars, envVars, dbLogs,
                dbTasks, busVars, calls>>

\* WizelitAgentWrapper.get_job_from_db: the row's status, result and error
get_job_from_db ==
    IF dbJob.exists
    THEN [found |-> TRUE, status |-> dbJob.status, result |-> dbJob.result,
          error |-> dbJob.error]
    ELSE [found |-> FALSE, status |-> "", result |-> NoneVal, error |-> None]

\* Faulty variant of RowsAfterCommit: every commit adds a row.
RowsAfterInsertOnly(s, n) == n + 1

\* The number of rows after session.commit of session s, there being n: the row
\* added by session.add is inserted unless its primary key is in the table.
RowsAfterCommit(s, n) == IF ~s.loaded.exists /\ ~dbJob.exists THEN n + 1 ELSE n

InitStore ==
    /\ db_manager = "ok"
    /\ log_streamer = "None"
    /\ redis = NoRedis
    /\ created = TRUE
    /\ status = "running"
    /\ result = NoneVal
    /\ error = None
    /\ logs = <<>>
    /\ jobs = {JobId}
    /\ now = StartTime
    /\ tpc = "func"
    /\ rpc = "idle"
    /\ rres = NoRes
    /\ hb = "none"
    /\ hbStart = 0
    /\ hbDue = 0
    /\ sess = NoSess
    /\ events = 0
    /\ extPhases = {}
    /\ before = [result |-> NoneVal, error |-> None]
    /\ leaves = 0
    /\ \E written \in BOOLEAN :
          /\ dbJob = IF written THEN MirrorRow ELSE NoRow
          /\ dbRows = IF written THEN 1 ELSE 0
    /\ dbLogs = {}
    /\ dbTasks = {}
    /\ pubTasks = {}
    /\ pubSeq = 0
    /\ bus = <<>>
    /\ calls = <<>>
    /\ pcall = [c \in Callers |-> [pc |-> "idle", sess |-> NoSess]]
    /\ clean = [c \in Callers |-> TRUE]
    /\ prevWrite = NoWrite
    /\ writes = {}
    /\ nsets = 0
    /\ npersists = 0
    /\ SubIdle
    /\ ReaderIdle
    /\ ApiIdle
    /\ IdsIdle
    /\ DispatchIdle

\* Job.status setter (no streamer configured)
AssignStatus(s) ==
    /\ nsets < MaxSets
    /\ UNCHANGED <<subVars, readerVars, apiVars, idVars, dispVars>>
    /\ nsets' = nsets + 1
    /\ status' = s
    /\ RunIdle
    /\ UNCHANGED <<result, error, dbJob, pcall, clean, prevWrite, writes, dbRows,
                   npersists>>

\* WizelitAgentWrapper.set_job_result / Job.result setter
set_job_result(v) ==
    /\ nsets < MaxSets
    /\ UNCHANGED <<subVars, readerVars, apiVars, idVars, dispVars>>
    /\ nsets' = nsets + 1
    /\ result' = v
    /\ RunIdle
    /\ UNCHANGED <<status, error, dbJob, pcall, clean, prevWrite, writes, dbRows,
                   npersists>>

\* WizelitAgentWrapper.set_job_error / Job.error setter
set_job_error(e) ==
    /\ nsets < MaxSets
    /\ UNCHANGED <<subVars, readerVars, apiVars, idVars, dispVars>>
    /\ nsets' = nsets + 1
    /\ error' = e
    /\ RunIdle
    /\ UNCHANGED <<status, result, dbJob, pcall, clean, prevWrite, writes, dbRows,
                   npersists>>

\* persist_to_db is called by c: the session is opened and session.get awaited.
PersistBegin(c) ==
    /\ npersists < MaxPersists
    /\ UNCHANGED <<subVars, readerVars, apiVars, idVars, dispVars>>
    /\ pcall[c].pc = "idle"
    /\ npersists' = npersists + 1
    /\ pcall' = [pcall EXCEPT ![c].pc = "get"]
    /\ clean' = [d \in Callers |->
                    IF d = c THEN \A o \in Callers \ {c} : pcall[o].pc = "idle"
                    ELSE clean[d] /\ pcall[d].pc = "idle"]
    /\ RunIdle
    /\ UNCHANGED <<status, result, error, dbJob, prevWrite, writes, dbRows, nsets>>

\* session.get returned to c: the row is staged and session.commit awaited.
PersistGet(c) ==
    /\ pcall[c].pc = "get"
    /\ UNCHANGED <<subVars, readerVars, apiVars, idVars, dispVars>>
    /\ pcall' = [pcall EXCEPT ![c] = [pc |-> "commit", sess |-> Staged]]
    /\ writes' = writes \cup {Staged.staged}
    /\ RunIdle
    /\ UNCHANGED <<status, result, error, dbJob, clean, prevWrite, dbRows, nsets,
                   npersists>>

\* session.commit returned to c: persist_to_db returns.
PersistCommit(c) ==
    /\ pcall[c].pc = "commit"
    /\ UNCHANGED <<subVars, readerVars, apiVars, idVars, dispVars>>
    /\ dbJob' = Commit(pcall[c].sess)
    /\ dbRows' = RowsAfterCommit(pcall[c].sess, dbRows)
    /\ prevWrite' = [done |-> TRUE, row |-> pcall[c].sess.staged, clean |-> clean[c]]
    /\ pcall' = [pcall EXCEPT ![c] = [pc |-> "idle", sess |-> NoSess]]
    /\ RunIdle
    /\ UNCHANGED <<status, result, error, clean, writes, nsets, npersists>>

NextStore ==
    \/ \E s \in {"running", "completed", "failed"} : AssignStatus(s)
    \/ \E v \in {NoneVal, [type |-> "str", val |-> "ok"]} : set_job_result(v)
    \/ \E e \in {None, "boom"} : set_job_error(e)
    \/ \E c \in Callers : PersistBegin(c)
    \/ \E c \in Callers : PersistGet(c)
    \/ \E c \in Callers : PersistCommit(c)

SpecStore == InitStore /\ [][NextStore]_vars

----------------------------------------------------------------------------
\* LogStreamer.subscribe_logs: one subscription and its consumer.

\* What pubsub.listen() hands out: the confirmation of a subscribe, or a message
\* of a channel, whose data is the JSON of a log event, of a status event, of
\* something that is no object, or no JSON at all.
Confirmation == [type |-> "subscribe", data |-> ""]
Payloads == {"log", "running", "completed", "failed", "42", "not json"}
Messages == [type : {"message"}, data : Payloads]

\* json.loads(data) does not raise JSONDecodeError
Decodes(data) == data # "not json"

\* json.loads(data) is a dict
IsObject(data) == data \in {"log", "running", "completed", "failed"}

\* event.get("status")
StatusOf(data) == IF data \in {"running", "completed", "failed"} THEN data ELSE None

\* if timeout and start_time: elapsed > timeout
TimedOut == subTimeout # 0 /\ subElapsed > subTimeout

\* Nothing but the subscription changes.
SubFrame == UNCHANGED <<cfgVars, jobVars, jobs, now, taskVars, envVars, dbVars,
                        busVars, calls, storeVars, readerVars, apiVars,
                        idVars, dispVars>>

InitSub ==
    /\ db_manager = "None"
    /\ log_streamer = "ok"
    /\ redis = NoRedis
    /\ created = FALSE
    /\ status = "running"
    /\ result = NoneVal
    /\ error = None
    /\ logs = <<>>
    /\ jobs = {}
    /\ now = StartTime
    /\ tpc = "init"
    /\ rpc = "idle"
    /\ rres = NoRes
    /\ hb = "none"
    /\ hbStart = 0
    /\ hbDue = 0
    /\ sess = NoSess
    /\ events = 0
    /\ extPhases = {}
    /\ before = [result |-> NoneVal, error |-> None]
    /\ leaves = 0
    /\ dbJob = NoRow
    /\ dbLogs = {}
    /\ dbTasks = {}
    /\ pubTasks = {}
    /\ pubSeq = 0
    /\ bus = <<>>
    /\ calls = <<>>
    /\ StoreIdle
    /\ SubIdle
    /\ ReaderIdle
    /\ ApiIdle
    /\ IdsIdle
    /\ DispatchIdle

\* subscribe_logs(job_id, timeout) up to the loop: the two channels are
\* subscribed, their confirmations are the first things listen() hands out, and
\* start_time is read if a timeout is given.
Subscribe(timeout) ==
    /\ sub = "none"
    /\ sub' = "listening"
    /\ subTimeout' = timeout
    /\ subElapsed' = 0
    /\ inbox' = <<Confirmation, Confirmation>>
    /\ UNCHANGED <<subEnd, tock, handled, yielded, narrived>>
    /\ SubFrame

\* A publisher publishes on one of the job's channels while the subscription is
\* open.
Arrive(m) ==
    /\ sub \in {"listening", "yielding"}
    /\ narrived < MaxMessages
    /\ narrived' = narrived + 1
    /\ inbox' = Append(inbox, m)
    /\ UNCHANGED <<sub, subEnd, subTimeout, subElapsed, tock, handled, yielded>>
    /\ SubFrame

\* Faulty variant of Listen: a message that is no JSON ends the subscription.
ListenEndingOnGarbage ==
    /\ sub = "listening"
    /\ inbox # <<>>
    /\ inbox' = Tail(inbox)
    /\ IF TimedOut
       THEN sub' = "ended" /\ subEnd' = "timeout" /\ UNCHANGED <<handled, yielded>>
       ELSE /\ handled' = Append(handled, Head(inbox))
            /\ IF Head(inbox).type = "message" /\ Decodes(Head(inbox).data)
               THEN /\ yielded' = Append(yielded, Head(inbox).data)
                    /\ sub' = "yielding" /\ subEnd' = subEnd
               ELSE /\ yielded' = yielded
                    /\ IF Head(inbox).type = "message"
                       THEN sub' = "ended" /\ subEnd' = "error"
                       ELSE sub' = sub /\ subEnd' = subEnd
    /\ UNCHANGED <<subTimeout, subElapsed, tock, narrived>>
    /\ SubFrame

\* async for message in pubsub.listen(): the loop gets the next message; past the
\* timeout it breaks; a message of a channel is decoded and yielded, one that
\* does not decode is logged and skipped, anything else is passed over.
Listen ==
    /\ sub = "listening"
    /\ inbox # <<>>
    /\ inbox' = Tail(inbox)
    /\ IF TimedOut
       THEN sub' = "ended" /\ subEnd' = "timeout" /\ UNCHANGED <<handled, yielded>>
       ELSE /\ handled' = Append(handled, Head(inbox))
            /\ subEnd' = subEnd
            /\ IF Head(inbox).type = "message" /\ Decodes(Head(inbox).data)
               THEN yielded' = Append(yielded, Head(inbox).data) /\ sub' = "yielding"
               ELSE yielded' = yielded /\ sub' = sub
    /\ UNCHANGED <<subTimeout, subElapsed, tock, narrived>>
    /\ SubFrame

\* Faulty variant of Resume: only a completed status ends the subscription.
ResumeEndingOnCompleted ==
    /\ sub = "yielding"
    /\ LET event == yielded[Len(yielded)]
       IN  CASE ~IsObject(event) -> sub' = "ended" /\ subEnd' = "error"
             [] IsObject(event) /\ StatusOf(event) = "completed" ->
                    sub' = "ended" /\ subEnd' = "terminal"
             [] OTHER -> sub' = "listening" /\ subEnd' = subEnd
    /\ UNCHANGED <<subTimeout, subElapsed, tock, inbox, handled, yielded, narrived>>
    /\ SubFrame

\* The consumer asks for the next event and the generator goes on after its
\* yield: event.get("status") of something that is no dict raises, which except
\* Exception catches; a completed or failed status breaks the loop; in both
\* cases the finally unsubscribes and the sequence ends.
Resume ==
    /\ sub = "yielding"
    /\ LET event == yielded[Len(yielded)]
       IN  CASE ~IsObject(event) -> sub' = "ended" /\ subEnd' = "error"
             [] IsObject(event) /\ StatusOf(event) \in {"completed", "failed"} ->
                    sub' = "ended" /\ subEnd' = "terminal"
             [] OTHER -> sub' = "listening" /\ subEnd' = subEnd
    /\ UNCHANGED <<subTimeout, subElapsed, tock, inbox, handled, yielded, narrived>>
    /\ SubFrame

\* A second passes on the event loop's clock.
SubTick ==
    /\ sub # "none"
    /\ tock' = ~tock
    /\ subElapsed' = IF subElapsed < MaxSubClock THEN subElapsed + 1 ELSE subElapsed
    /\ UNCHANGED <<sub, subEnd, subTimeout, inbox, handled, yielded, narrived>>
    /\ SubFrame

NextSub ==
    \/ \E timeout \in {0, SubTimeout} : Subscribe(timeout)
    \/ \E m \in Messages : Arrive(m)
    \/ Listen
    \/ Resume
    \/ SubTick

SpecSub == InitSub /\ [][NextSub]_vars

\* The loop and the consumer run when they can, and time passes.
SpecSubFair ==
    SpecSub /\ WF_vars(Listen) /\ WF_vars(Resume) /\ WF_vars(SubTick)

----------------------------------------------------------------------------
\* The bus with two jobs publishing and one subscription, for the job JobId.
\* bus holds what was published, in order; a publication carries whether the
\* subscription was open when it was made.

\* publish_log: f"job:{job_id}:logs"; publish_status_change: f"job:{job_id}:status"
ChannelKind(data) == IF data = "log" THEN "logs" ELSE "status"

\* Faulty variant of ChannelName: the channel does not depend on the job.
ChannelNameWithoutId(id, kind) == "job:" \o kind

ChannelName(id, kind) == "job:" \o id \o ":" \o kind

\* subscribe_logs: pubsub.subscribe(log_channel, status_channel)
Subscribed(id) == {ChannelName(id, "logs"), ChannelName(id, "status")}

\* The events publish_log and publish_status_change publish.
BusPayloads == {"log", "running", "completed", "failed"}

\* redis_client.publish(channel, json.dumps(event)) by the job id: the bus hands
\* the message to the connections that subscribed the channel.
PublishOn(id, data) ==
    /\ narrived < MaxMessages
    /\ narrived' = narrived + 1
    /\ LET m == [type |-> "message", data |-> data, job_id |-> id,
                 channel |-> ChannelName(id, ChannelKind(data)),
                 n |-> narrived + 1,
                 open |-> sub \in {"listening", "yielding"}]
       IN  /\ bus' = Append(bus, m)
           /\ inbox' = IF m.open /\ m.channel \in Subscribed(JobId)
                       THEN Append(inbox, m) ELSE inbox
    /\ UNCHANGED <<sub, subEnd, subTimeout, subElapsed, tock, handled, yielded>>
    /\ UNCHANGED <<cfgVars, jobVars, jobs, now, taskVars, envVars, dbVars,
                   pubTasks, pubSeq, calls, storeVars, readerVars, apiVars,
                   idVars, dispVars>>

NextBus ==
    \/ \E timeout \in {0, SubTimeout} : Subscribe(timeout)
    \/ \E id \in Ids : \E data \in BusPayloads : PublishOn(id, data)
    \/ Listen
    \/ Resume
    \/ SubTick

SpecBus == InitSub /\ [][NextBus]_vars

----------------------------------------------------------------------------
\* A run without a store on a healthy bus, watched by a subscription for the
\* job that was made before the tool is dispatched, without timeout.

\* json.dumps(event) of a publish task, as the subscription tells events apart;
\* n is the event's place among the publications.
EventData(e, n) ==
    [type |-> "message", data |-> IF e.kind = "log" THEN "log" ELSE e.status,
     n |-> n]

InitWatch ==
    /\ db_manager = "None"
    /\ log_streamer = "ok"
    /\ redis = NoRedis
    /\ created = FALSE
    /\ status = "running"
    /\ result = NoneVal
    /\ error = None
    /\ logs = <<>>
    /\ jobs = {}
    /\ now = StartTime
    /\ tpc = "init"
    /\ rpc = "idle"
    /\ rres = NoRes
    /\ hb = "none"
    /\ hbStart = 0
    /\ hbDue = 0
    /\ sess = NoSess
    /\ events = 0
    /\ extPhases = {}
    /\ before = [result |-> NoneVal, error |-> None]
    /\ leaves = 0
    /\ dbJob = NoRow
    /\ dbLogs = {}
    /\ dbTasks = {}
    /\ pubTasks = {}
    /\ pubSeq = 0
    /\ bus = <<>>
    /\ calls = <<>>
    /\ StoreIdle
    /\ sub = "listening"
    /\ subEnd = ""
    /\ subTimeout = 0
    /\ subElapsed = 0
    /\ tock = FALSE
    /\ inbox = <<Confirmation, Confirmation>>
    /\ handled = <<>>
    /\ yielded = <<>>
    /\ narrived = 0
    /\ ReaderIdle
    /\ ApiIdle
    /\ IdsIdle
    /\ DispatchIdle

\* publish_log / publish_status_change of a publish task: the bus hands the
\* event to the subscription's connection while that is subscribed.
PublishWatched(e) ==
    /\ e \in pubTasks
    /\ pubTasks' = pubTasks \ {e}
    /\ bus' = Append(bus, Published(e))
    /\ inbox' = IF sub \in {"listening", "yielding"}
                THEN Append(inbox, EventData(e, Len(bus) + 1))
                ELSE inbox
    /\ UNCHANGED <<sub, subEnd, subTimeout, subElapsed, tock, handled, yielded, narrived>>
    /\ UNCHANGED <<cfgVars, jobVars, jobs, now, taskVars, envVars, dbVars, pubSeq,
                   calls, storeVars, readerVars, apiVars, idVars, dispVars>>

NextWatch ==
    \/ ToolCreateJob
    \/ \E mode \in {"await", "detach"} : ToolCallRun(mode)
    \/ ToolTaskDone
    \/ ToolReport
    \/ RunnerStart
    \/ \E level \in Levels : WorkLog(level)
    \/ \E v \in ReturnValues : WorkReturns(v)
    \/ \E m \in ErrorMessages : WorkRaises(m)
    \/ RunnerJoin
    \/ HeartbeatStart
    \/ HeartbeatWake
    \/ Tick
    \/ \E e \in pubTasks : PublishWatched(e)
    \/ Listen
    \/ Resume

SpecWatch == InitWatch /\ [][NextWatch]_vars

----------------------------------------------------------------------------
\* A run without a store on a healthy bus, with the steps of its publish tasks:
\* the tasks begin in the order of their creation; _ensure_connected makes the
\* task that finds no client create it and await its ping, while a task that
\* finds the client goes on to publish; the bus takes the publish commands in
\* the order in which they were sent.

InitConn == Init /\ db_manager = "None" /\ log_streamer = "ok"

\* The first step of a publish task, up to its first await: publish_status
\* reads the job's result and error, and _ensure_connected either creates the
\* client and awaits ping() or returns the client, after which publish is
\* awaited.
PublishBegin(e) ==
    /\ e \in pubTasks
    /\ \A f \in pubTasks : e.n <= f.n
    /\ pubTasks' = pubTasks \ {e}
    /\ redis' = IF redis.client = "None"
                THEN [client |-> "set", pinging |-> <<Published(e)>>, sent |-> redis.sent]
                ELSE [redis EXCEPT !.sent = Append(@, Published(e))]
    /\ UNCHANGED <<db_manager, log_streamer, jobVars, jobs, now, taskVars, envVars,
                   dbVars, pubSeq, bus, calls, auxVars>>

\* ping() returned to the task that created the client: it goes on to publish.
PingReturns ==
    /\ redis.pinging # <<>>
    /\ redis' = [redis EXCEPT !.pinging = <<>>,
                              !.sent = Append(@, Head(redis.pinging))]
    /\ UNCHANGED <<db_manager, log_streamer, jobVars, jobs, now, taskVars, envVars,
                   dbVars, busVars, calls, auxVars>>

\* The bus takes the next publish command and hands the event to the channel.
ServerPublishes ==
    /\ redis.sent # <<>>
    /\ bus' = Append(bus, Head(redis.sent))
    /\ redis' = [redis EXCEPT !.sent = Tail(@)]
    /\ UNCHANGED <<db_manager, log_streamer, jobVars, jobs, now, taskVars, envVars,
                   dbVars, pubTasks, pubSeq, calls, auxVars>>

NextConn ==
    \/ ToolCreateJob
    \/ \E mode \in {"await", "detach"} : ToolCallRun(mode)
    \/ ToolTaskDone
    \/ ToolReport
    \/ RunnerStart
    \/ \E level \in Levels : WorkLog(level)
    \/ \E v \in ReturnValues : WorkReturns(v)
    \/ \E m \in ErrorMessages : WorkRaises(m)
    \/ RunnerJoin
    \/ HeartbeatStart
    \/ HeartbeatWake
    \/ Tick
    \/ \E e \in pubTasks : PublishBegin(e)
    \/ PingReturns
    \/ ServerPublishes

SpecConn == InitConn /\ [][NextConn]_vars

----------------------------------------------------------------------------
\* A job that is run again when the task of a run has finished.

InitRerun == Init /\ db_manager \in {"None", "ok"} /\ log_streamer = "ok"

\* job.run(coro) on a job whose earlier run is over: a new _runner task; like
\* the first, it is created whatever the job's status, result and error are.
RunAgain ==
    /\ Spend(1)
    /\ UNCHANGED auxVars
    /\ rpc = "done"
    /\ rpc' = "created"
    /\ rres' = NoRes
    /\ hb' = "none"
    /\ UNCHANGED <<cfgVars, jobVars, jobs, now, tpc, hbStart, hbDue, sess,
                   ghostVars, dbVars, busVars, calls>>

NextRerun ==
    \/ ToolCreateJob
    \/ ToolPersistGet
    \/ ToolPersistCommit
    \/ \E mode \in {"await", "detach"} : ToolCallRun(mode)
    \/ ToolTaskDone
    \/ ToolReport
    \/ RunnerStart
    \/ \E k \in 1..3 : RunnerPersistGet(k)
    \/ \E k \in 1..3 : RunnerPersistCommit(k)
    \/ \E v \in ReturnValues : WorkReturns(v)
    \/ \E m \in ErrorMessages : WorkRaises(m)
    \/ RunnerJoin
    \/ HeartbeatStart
    \/ RunAgain
    \/ \E t \in dbTasks : WriteLog(t)
    \/ \E e \in pubTasks : Publish(e)

SpecRerun == InitRerun /\ [][NextRerun]_vars

----------------------------------------------------------------------------
\* Properties.

\* The step in which the task returned by Job.run finishes.
RunCompletes == rpc # "done" /\ rpc' = "done"

\* The seconds the clock can show.
Times == StartTime .. (StartTime + MaxEvents)

\* The list l holds an ERROR entry whose message is the runner's line for e.
HasErrorLine(l, e) ==
    \E i \in 1..Len(l) : \E t \in Times :
        l[i] = "[ERROR] [" \o strftime(t) \o "] [System] Error: " \o e

HeartbeatStopped == hb \in {"finished", "cancelled"}

\* C3 as stated: when the work raises, the task finishes with that failure, and
\* when it does the status is failed, the error is set, the failure is in the
\* durable store if one is configured and the heartbeat has stopped.
C3_FailureObserved ==
    [][(RunCompletes /\ error' \in ErrorMessages)
        => (/\ rres'.kind = "raise" /\ rres'.exc = error'
            /\ status' = "failed"
            /\ (db_manager # "None"
                    => dbJob'.exists /\ dbJob'.status = "failed" /\ dbJob'.error = error')
            /\ HeartbeatStopped')]_vars

\* C3 amended: a failure of the work stays the task's outcome unless the task is
\* cancelled from outside; when the task finishes with it, the error is the
\* failure's message and the heartbeat has stopped, and if set_job_status was not
\* called during the run the status is failed and a healthy durable store holds
\* the failed status and the error.
C3_FailureObservedUndisturbed ==
    /\ [][rres.kind = "raise" => (rres' = rres \/ rres'.kind = "cancel")]_vars
    /\ [][(RunCompletes /\ rres'.kind = "raise")
            => (/\ rres'.exc \in ErrorMessages /\ error' = rres'.exc
                /\ HeartbeatStopped'
                /\ ("during" \notin extPhases' => status' = "failed")
                /\ ("during" \notin extPhases' /\ db_manager = "ok"
                        => dbJob'.exists /\ dbJob'.status = "failed"
                           /\ dbJob'.error = rres'.exc))]_vars

C3_Witness ==
    /\ tpc = "await_task" /\ rpc = "done" /\ rres.kind = "raise"
    /\ db_manager = "ok" /\ extPhases = {}
    /\ status = "failed" /\ dbJob.status = "failed" /\ dbJob.error = rres.exc
    /\ hb = "cancelled"

\* C4: once the status is completed or failed, no step of the runner or of the
\* tool dispatch layer in that run changes it.
C4_TerminalIsFinal ==
    [][(status \in {"completed", "failed"} /\ rpc \notin {"idle", "created"}
            /\ (rpc' # rpc \/ tpc' # tpc))
        => status' = status]_vars

\* x is a heartbeat line.
IsHeartbeatLine(x) ==
    \E t \in Times : \E k \in 0..MaxEvents :
        x = "[INFO] [" \o strftime(t) \o "] Still working... (" \o ToString(k) \o "s)"

\* This step appends a heartbeat line to the logs.
HeartbeatLineAppended ==
    /\ Len(logs') = Len(logs) + 1
    /\ IsHeartbeatLine(logs'[Len(logs')])

\* C5: every heartbeat line is appended in a state whose status is running, and
\* no heartbeat line is appended by a step from a non-running status to a
\* non-running status.
C5_HeartbeatOnlyWhileRunning ==
    /\ [][HeartbeatLineAppended => status = "running"]_vars
    /\ [][(status # "running" /\ status' # "running") => ~HeartbeatLineAppended]_vars

\* The heartbeat's sleep has ended while the status was not running, and it ended
\* without a line, while the work is still in progress.
C5_Witness ==
    /\ hb = "finished" /\ status # "running" /\ now >= hbDue /\ hbDue > hbStart
    /\ rpc = "work"

\* C6: when the task of a run has finished the heartbeat task is not pending (it
\* was cancelled, had ended, or never began), whatever way the run ended, and no
\* step after that appends a heartbeat line.
C6_HeartbeatStoppedWithRun ==
    /\ [](rpc = "done" => hb \notin {"created", "sleeping", "cancelling"})
    /\ [][rpc = "done" => ~HeartbeatLineAppended]_vars

\* The run is over, its heartbeat was cancelled in its sleep, the status was set
\* back to running afterwards and the time the heartbeat would have woken at has
\* come.
C6_Witness ==
    /\ rpc = "done" /\ hb = "cancelled"
    /\ "after" \in extPhases /\ status = "running" /\ now >= hbDue /\ hbDue > hbStart

\* A number below 100 in two digits.
TwoDigits(n) == ToString(n \div 10) \o ToString(n % 10)

\* The entry '[LEVEL] [HH:MM:SS] message' of the logger call c.
EntryOf(c) ==
    "[" \o c.level \o "] [" \o TwoDigits((c.t \div 3600) % 24) \o ":"
        \o TwoDigits((c.t \div 60) % 60) \o ":" \o TwoDigits(c.t % 60) \o "] " \o c.msg

\* The logger calls at a level the logger accepts (INFO and above), in call order.
AcceptedCalls == SelectSeq(calls, LAMBDA c : c.level \in {"INFO", "WARNING", "ERROR"})

\* C7: the logs hold, in the order of the calls, one entry
\* '[LEVEL] [HH:MM:SS] message' for each logger call that the logger accepts,
\* whether the call came from the work, the heartbeat or the runner.
C7_LogsInCallOrder ==
    /\ Len(logs) = Len(AcceptedCalls)
    /\ \A i \in 1..Len(logs) : logs[i] = EntryOf(AcceptedCalls[i])

\* Two entries from different callers at different seconds.
C7_Witness ==
    /\ Len(logs) >= 2
    /\ AcceptedCalls[1].src # AcceptedCalls[2].src
    /\ AcceptedCalls[1].t # AcceptedCalls[2].t

\* The run's task has finished by the work's return or failure, and nobody called
\* set_job_status.
UndisturbedRunOver == rpc = "done" /\ rres.kind \in {"return", "raise"} /\ extPhases = {}

\* The in-memory state an undisturbed run leaves, as the work's outcome alone
\* determines it.
InMemoryOutcome ==
    IF rres.kind = "return"
    THEN /\ status = "completed" /\ error = None
         /\ result = (IF rres.ret.type \in {"str", "dict"} THEN rres.ret ELSE before.result)
    ELSE /\ status = "failed" /\ error = rres.exc /\ result = before.result
         /\ HasErrorLine(logs, rres.exc)

\* The events of kind k on the bus, in the order they were published.
BusEvents(k) == SelectSeq(bus, LAMBDA e : e.kind = k)

\* C8: with a durable store all of whose operations fail, the task of a run fails
\* only with the failure of the work, every accepted logger call has its entry
\* in the logs, an undisturbed run leaves the status, result, error and error
\* line that the work's outcome determines (the same as with any store), and once
\* the publish tasks have run a healthy bus holds one log event per accepted
\* call and the status event of the terminal state.
C8_StoreFailureIsolated ==
    db_manager = "failing" =>
        /\ rres.kind = "raise" => (rres.exc \in ErrorMessages /\ error = rres.exc)
        /\ Len(logs) = Len(AcceptedCalls)
        /\ UndisturbedRunOver => InMemoryOutcome
        /\ (log_streamer = "ok" /\ pubTasks = {}) =>
              /\ Len(BusEvents("log")) = Len(AcceptedCalls)
              /\ \A i \in 1..Len(AcceptedCalls) : \E j \in 1..Len(bus) :
                    /\ bus[j].kind = "log"
                    /\ bus[j].level = AcceptedCalls[i].level
                    /\ bus[j].message = AcceptedCalls[i].msg
              /\ UndisturbedRunOver => \E j \in 1..Len(bus) :
                    /\ bus[j].kind = "status" /\ bus[j].status = status
                    /\ bus[j].result = result /\ bus[j].error = error

\* A run under a failing store whose work logged and then raised: nothing is in
\* the store and the bus holds the events.
C8_Witness ==
    /\ db_manager = "failing" /\ log_streamer = "ok"
    /\ UndisturbedRunOver /\ rres.kind = "raise" /\ pubTasks = {}
    /\ Len(logs) >= 2 /\ Len(BusEvents("log")) >= 2
    /\ ~dbJob.exists /\ dbLogs = {}

\* C9: with a streaming bus all of whose publishes fail and a healthy durable
\* store, the task of a run fails only with the failure of the work, every
\* accepted logger call has its entry in the logs, once the write tasks have run
\* it has its row in the store, and an undisturbed run leaves a job row that
\* holds the job's terminal status, result and error.
C9_StreamFailureIsolated ==
    (log_streamer = "failing" /\ db_manager = "ok") =>
        /\ rres.kind = "raise" => (rres.exc \in ErrorMessages /\ error = rres.exc)
        /\ Len(logs) = Len(AcceptedCalls)
        /\ dbTasks = {} =>
              \A i \in 1..Len(calls) :
                  calls[i].level \in {"INFO", "WARNING", "ERROR"} =>
                      [n |-> i, level |-> calls[i].level, message |-> calls[i].msg]
                          \in dbLogs
        /\ UndisturbedRunOver =>
              /\ status \in {"completed", "failed"}
              /\ dbJob = [exists |-> TRUE, status |-> status, result |-> result,
                          error |-> error]

\* A run under a failing bus whose work logged and then raised: the bus is empty,
\* the store holds the failed job and its log rows.
C9_Witness ==
    /\ log_streamer = "failing" /\ db_manager = "ok"
    /\ UndisturbedRunOver /\ rres.kind = "raise" /\ dbTasks = {} /\ pubTasks = {}
    /\ Cardinality(dbLogs) >= 2 /\ bus = <<>>
    /\ dbJob.status = "failed"

\* The job's status is terminal in memory while its row still says running.
RowBehind ==
    /\ status \in {"completed", "failed"}
    /\ dbJob.exists /\ dbJob.status = "running"

\* C10 as stated: with a healthy store, a job of a run is never seen with a
\* terminal in-memory status while its row holds running.
C10_TerminalAtomicWithRow ==
    (db_manager = "ok" /\ rpc # "idle" /\ extPhases = {}) => ~RowBehind

\* C10 amended: with a healthy store and a run that nobody disturbs, the status
\* is terminal in memory while the row holds running only as long as the
\* runner's persist of that terminal state is pending, and when the task has
\* finished the row holds the in-memory status.
C10_TerminalThenRow ==
    (db_manager = "ok" /\ extPhases = {} /\ rres.kind \in {"return", "raise"}) =>
        /\ RowBehind => rpc \in {"p2_get", "p2_commit", "p3_get", "p3_commit"}
        /\ rpc = "done" => (dbJob.exists /\ dbJob.status = status)

\* The window: the status is completed in memory, the commit is pending.
C10_Witness ==
    /\ db_manager = "ok" /\ extPhases = {} /\ rpc = "p2_commit"
    /\ RowBehind

\* C11: with a healthy store, once the run's task has finished by the
\* work's return or failure and no persist is pending, the job's row holds the
\* in-memory status, result and error, whoever set the status and whenever.
C11_MirrorConsistent ==
    (db_manager = "ok" /\ rpc = "done" /\ rres.kind \in {"return", "raise"}
        /\ ~sess.open) => dbJob = MirrorRow

\* C17: the step that constructs a Job, whatever store and streamer it is given,
\* leaves it with status running, empty logs, no result and no error, and with
\* nothing written to the store and nothing published or scheduled for either.
C17_FreshJob ==
    [][(~created /\ created')
        => (/\ status' = "running" /\ logs' = <<>>
            /\ result' = NoneVal /\ error' = None
            /\ dbJob' = NoRow /\ dbLogs' = {} /\ dbTasks' = {} /\ ~sess'.open
            /\ bus' = <<>> /\ pubTasks' = {})]_vars

\* A Job just constructed with a store and a streamer.
C17_Witness ==
    /\ created /\ tpc = "persist_get" /\ db_manager = "ok" /\ log_streamer = "ok"
    /\ status = "running" /\ logs = <<>> /\ dbJob = NoRow /\ pubTasks = {}

\* C18: the status of a job is always one of running, completed, failed.
C18_StatusInEnum == created => status \in {"running", "completed", "failed"}

\* s is a prefix of t.
IsPrefix(s, t) == Len(s) <= Len(t) /\ SubSeq(t, 1, Len(s)) = s

Returns(c) == pcall[c].pc = "commit" /\ pcall'[c].pc = "idle"

\* The row r as get_job_from_db returns it.
AsRetrieved(r) ==
    [found |-> TRUE, status |-> r.status, result |-> r.result, error |-> r.error]

\* C12: when a persist_to_db call returns, get_job_from_db yields the values the
\* call wrote if no other call overlapped it, and in any case the values of one
\* of the writes made so far, and there is at most one row for the id.
C12_RoundTrip ==
    [][\A c \in Callers : Returns(c) =>
          /\ clean[c] => get_job_from_db' = AsRetrieved(pcall[c].sess.staged)
          /\ \E w \in writes : get_job_from_db' = AsRetrieved(w)
          /\ dbRows' <= 1]_vars

\* C13: when a persist_to_db call returns that wrote the same status, result and
\* error as the call before it, neither call overlapped by another, the row
\* holds the same status, result and error as before and is the only one.
C13_PersistIdempotent ==
    [][\A c \in Callers :
          (Returns(c) /\ clean[c] /\ prevWrite.done /\ prevWrite.clean
              /\ prevWrite.row = pcall[c].sess.staged)
          => (get_job_from_db' = get_job_from_db /\ dbRows' = 1 /\ dbRows = 1)]_vars

\* Two persists of the same failed state have returned, one after the other.
C13_Witness ==
    /\ npersists = 2 /\ \A c \in Callers : pcall[c].pc = "idle"
    /\ prevWrite.done /\ prevWrite.clean
    /\ status = "failed" /\ error = "boom"
    /\ writes = {[exists |-> TRUE, status |-> "failed", result |-> NoneVal,
                  error |-> "boom"]}
    /\ dbJob = MirrorRow /\ dbRows = 1


----------------------------------------------------------------------------
\* The interface of a registered job and of the wrapper: the job's logger, the
\* getters and the setters, called for a registered and for an unknown id, from
\* the event loop's thread or from a worker thread.

AllLevels == Levels \cup {"ERROR"}
ApiStatuses == {"running", "completed", "failed"}
ApiResults == {NoneVal, [type |-> "str", val |-> "ok"]}
ApiErrors == {None, "boom"}

Present(v) == [some |-> TRUE, v |-> v]

\* Faulty variant of Lookup: every id is taken for a registered one.
LookupAny(id) == TRUE

\* self._jobs.get(job_id) is not None
Lookup(id) == id \in jobs

ApiFrame ==
    UNCHANGED <<cfgVars, created, jobs, now, taskVars, envVars, dbJob, dbLogs, bus,
                storeVars, subVars, readerVars, idVars, dispVars>>

\* One call: its operation, the id and the argument it is called with, whether
\* the calling thread runs the event loop, and what it returns.
ApiCall(op, id, arg, loop, val) ==
    /\ napi < MaxApiCalls
    /\ napi' = napi + 1
    /\ apiRet' = [op |-> op, id |-> id, arg |-> arg, loop |-> loop, val |-> val]
    /\ ApiFrame

InitApi ==
    /\ db_manager \in {"None", "ok"}
    /\ log_streamer \in {"None", "ok"}
    /\ redis = NoRedis
    /\ created = TRUE
    /\ status = "running"
    /\ result = NoneVal
    /\ error = None
    /\ logs = <<>>
    /\ jobs = {JobId}
    /\ now = StartTime
    /\ tpc = "func"
    /\ rpc = "idle"
    /\ rres = NoRes
    /\ hb = "none"
    /\ hbStart = 0
    /\ hbDue = 0
    /\ sess = NoSess
    /\ events = 0
    /\ extPhases = {}
    /\ before = [result |-> NoneVal, error |-> None]
    /\ leaves = 0
    /\ dbJob = IF db_manager = "ok" THEN MirrorRow ELSE NoRow
    /\ dbLogs = {}
    /\ dbTasks = {}
    /\ pubTasks = {}
    /\ pubSeq = 0
    /\ bus = <<>>
    /\ calls = <<>>
    /\ StoreIdle
    /\ SubIdle
    /\ ReaderIdle
    /\ ApiIdle
    /\ IdsIdle
    /\ DispatchIdle

\* job.logger.<level>("call")
JobLog(level, loop) ==
    /\ ApiCall("log", JobId, level, loop, Absent)
    /\ IF loop
       THEN Log(PS, level, "call", "api")
       ELSE LogOutsideLoop(PS, level, "call", "api")
    /\ UNCHANGED <<status, result, error>>

\* get_job_logs(job_id)
get_job_logs(id) ==
    /\ ApiCall("get_job_logs", id, "", TRUE, IF Lookup(id) THEN Present(logs) ELSE Absent)
    /\ NoLog(PS)
    /\ UNCHANGED <<status, result, error>>

\* get_job_status(job_id)
get_job_status(id) ==
    /\ ApiCall("get_job_status", id, "", TRUE,
               IF Lookup(id) THEN Present(status) ELSE Absent)
    /\ NoLog(PS)
    /\ UNCHANGED <<status, result, error>>

\* get_job(job_id)
get_job(id) ==
    /\ ApiCall("get_job", id, "", TRUE, IF Lookup(id) THEN Present(id) ELSE Absent)
    /\ NoLog(PS)
    /\ UNCHANGED <<status, result, error>>

\* set_job_status(job_id, s): job.status = s, whose setter schedules the event
\* when a streamer is configured and the calling thread runs the event loop.
set_job_status(id, s, loop) ==
    /\ ApiCall("set_job_status", id, s, loop, Present(Lookup(id)))
    /\ IF Lookup(id)
       THEN /\ status' = s
            /\ NoLog(IF loop THEN PublishStatus(PS, s, result, error) ELSE PS)
       ELSE /\ status' = status
            /\ NoLog(PS)
    /\ UNCHANGED <<result, error>>

\* Faulty variant of SetJobResult: the result is announced like a status.
SetJobResultPublishing(id, v) ==
    /\ ApiCall("set_job_result", id, v, TRUE, Present(Lookup(id)))
    /\ result' = IF Lookup(id) THEN v ELSE result
    /\ NoLog(PublishStatus(PS, status, v, error))
    /\ UNCHANGED <<status, error>>

\* set_job_result(job_id, v) for any id: job.result = v
SetJobResult(id, v) ==
    /\ ApiCall("set_job_result", id, v, TRUE, Present(Lookup(id)))
    /\ result' = IF Lookup(id) THEN v ELSE result
    /\ NoLog(PS)
    /\ UNCHANGED <<status, error>>

\* set_job_error(job_id, e) for any id: job.error = e
SetJobError(id, e) ==
    /\ ApiCall("set_job_error", id, e, TRUE, Present(Lookup(id)))
    /\ error' = IF Lookup(id) THEN e ELSE error
    /\ NoLog(PS)
    /\ UNCHANGED <<status, result>>

NextApi ==
    \/ \E level \in AllLevels, loop \in BOOLEAN : JobLog(level, loop)
    \/ \E id \in Ids : get_job_logs(id)
    \/ \E id \in Ids : get_job_status(id)
    \/ \E id \in Ids : get_job(id)
    \/ \E id \in Ids, s \in ApiStatuses, loop \in BOOLEAN : set_job_status(id, s, loop)
    \/ \E id \in Ids, v \in ApiResults : SetJobResult(id, v)
    \/ \E id \in Ids, e \in ApiErrors : SetJobError(id, e)
    \/ \E t \in dbTasks : WriteLog(t)
    \/ \E e \in pubTasks : Publish(e)

SpecApi == InitApi /\ [][NextApi]_vars

----------------------------------------------------------------------------
\* _execute_tool around a tool function that does not start a run: the function
\* logs, returns or raises.

ToolName == "tool"

\* f"Error in {tool_name}: {str(e)}"
ErrorReport(m) == "Error in " \o ToolName \o ": " \o m

DispatchFrame ==
    UNCHANGED <<cfgVars, created, result, error, jobs, now, rpc, rres, hb, hbStart,
                hbDue, sess, envVars, dbJob, dbLogs, bus, storeVars, subVars,
                readerVars, apiVars, idVars>>

\* _execute_tool for a tool that is not long-running and is given no job: no Job
\* is created and the function is called.
ToolWithoutJob ==
    /\ tpc = "init"
    /\ tpc' = "func"
    /\ NoLog(PS)
    /\ UNCHANGED <<status, dispVars>>
    /\ DispatchFrame

\* The tool function logs a line on its job.
ToolFuncLog(level) ==
    /\ tpc = "func"
    /\ created
    /\ Len(calls) < MaxToolLogs
    /\ Log(PS, level, "step", "tool")
    /\ UNCHANGED <<tpc, status, dispVars>>
    /\ DispatchFrame

\* The tool function returns: _execute_tool returns its value.
ToolFuncReturns ==
    /\ tpc = "func"
    /\ tpc' = "done"
    /\ NoLog(PS)
    /\ UNCHANGED <<status, dispVars>>
    /\ DispatchFrame

\* Faulty variant of ToolFuncRaises: the job is not marked failed.
ToolFuncRaisesWithoutMark(m) ==
    /\ tpc = "func"
    /\ tpc' = "report"
    /\ texc' = [state |-> "caught", msg |-> m]
    /\ status' = status
    /\ NoLog(PS)
    /\ reports' = Append(reports, [progress |-> 0, message |-> ErrorReport(m)])
    /\ DispatchFrame

\* The tool function raises an Exception with message m: except Exception as e
\* marks the job, if there is one, failed, and calls ctx.report_progress, which
\* it awaits.
ToolFuncRaises(m) ==
    /\ tpc = "func"
    /\ tpc' = "report"
    /\ texc' = [state |-> "caught", msg |-> m]
    /\ IF created
       THEN status' = "failed" /\ NoLog(PublishStatus(PS, "failed", result, error))
       ELSE status' = status /\ NoLog(PS)
    /\ reports' = Append(reports, [progress |-> 0, message |-> ErrorReport(m)])
    /\ DispatchFrame

\* ctx.report_progress returned: raise, which hands the exception caught to the
\* caller of _execute_tool.
ToolReraise ==
    /\ tpc = "report"
    /\ tpc' = "raised"
    /\ texc' = [texc EXCEPT !.state = "raised"]
    /\ NoLog(PS)
    /\ UNCHANGED <<status, reports>>
    /\ DispatchFrame

NextDispatch ==
    \/ ToolCreateJob
    \/ ToolPersistGet
    \/ ToolPersistCommit
    \/ ToolWithoutJob
    \/ \E level \in Levels : ToolFuncLog(level)
    \/ ToolFuncReturns
    \/ \E m \in ErrorMessages : ToolFuncRaises(m)
    \/ ToolReraise
    \/ \E t \in dbTasks : WriteLog(t)
    \/ \E e \in pubTasks : Publish(e)

SpecDispatch == Init /\ [][NextDispatch]_vars

----------------------------------------------------------------------------
\* Job instances and the registry: Job(ctx, job_id=...) by a caller of the SDK,
\* and the tool dispatch layer creating and registering a Job of its own.

IdsFrame ==
    UNCHANGED <<cfgVars, jobVars, jobs, now, taskVars, envVars, dbVars, busVars,
                calls, storeVars, subVars, readerVars, apiVars, dispVars>>

InitIds ==
    /\ db_manager = "None"
    /\ log_streamer = "None"
    /\ redis = NoRedis
    /\ created = FALSE
    /\ status = "running"
    /\ result = NoneVal
    /\ error = None
    /\ logs = <<>>
    /\ jobs = {}
    /\ now = StartTime
    /\ tpc = "init"
    /\ rpc = "idle"
    /\ rres = NoRes
    /\ hb = "none"
    /\ hbStart = 0
    /\ hbDue = 0
    /\ sess = NoSess
    /\ events = 0
    /\ extPhases = {}
    /\ before = [result |-> NoneVal, error |-> None]
    /\ leaves = 0
    /\ dbJob = NoRow
    /\ dbLogs = {}
    /\ dbTasks = {}
    /\ pubTasks = {}
    /\ pubSeq = 0
    /\ bus = <<>>
    /\ calls = <<>>
    /\ StoreIdle
    /\ SubIdle
    /\ ReaderIdle
    /\ ApiIdle
    /\ IdsIdle
    /\ DispatchIdle

\* The number of lines in the logs of all instances.
RECURSIVE SumLen(_)
SumLen(ls) == IF ls = <<>> THEN 0 ELSE Len(Head(ls)) + SumLen(Tail(ls))

LinesLogged == SumLen(ilogs)

\* Job.__init__: self._logs = []; _setup_logger: logging.getLogger of the name of
\* the id, which is the same logger for the same id; its handlers are cleared
\* and a memory handler that holds the new instance's _logs is added.
SetupLogger(id) ==
    /\ ilogs' = Append(ilogs, <<>>)
    /\ handler' = [handler EXCEPT ![id] = Len(insts) + 1]

\* Job(ctx, job_id=id): self._id = job_id; no instance and no registry is
\* consulted.  The caller keeps the instance.
NewJob(id) ==
    /\ Len(insts) < MaxJobs
    /\ insts' = Append(insts, id)
    /\ SetupLogger(id)
    /\ UNCHANGED registry
    /\ IdsFrame

\* _execute_tool for a long-running tool: Job(ctx), whose id is "JOB-" and the
\* first eight digits of a random uuid, any of them; self._jobs[job.id] = job
\* puts the instance under its id, whatever is registered there.
ExecuteToolCreate(id) ==
    /\ Len(insts) < MaxJobs
    /\ insts' = Append(insts, id)
    /\ SetupLogger(id)
    /\ registry' = [registry EXCEPT ![id] = Len(insts) + 1]
    /\ IdsFrame

\* Instance i calls self.logger.info(...): its logger is the one logging keeps
\* under the name of its id, and the line goes to the list that logger's memory
\* handler holds.
InstLog(i) ==
    /\ i \in 1..Len(insts)
    /\ LinesLogged < MaxInstLogs
    /\ ilogs' = [ilogs EXCEPT ![handler[insts[i]]] = Append(@, i)]
    /\ UNCHANGED <<insts, registry, handler>>
    /\ IdsFrame

NextIds ==
    \/ \E id \in Ids : NewJob(id)
    \/ \E id \in Ids : ExecuteToolCreate(id)
    \/ \E i \in 1..MaxJobs : InstLog(i)

SpecIds == InitIds /\ [][NextIds]_vars

----------------------------------------------------------------------------
\* Job.logs and get_job_logs: a reader of the job's logs beside the job.

\* What a reader holding the list g sees when the job's _logs holds l.
ReaderView(g, l) == IF g = "_logs" THEN l ELSE <<>>

\* What the reader does to the list it holds.
ReaderOps == {"append", "clear"}

ReaderFrame ==
    UNCHANGED <<cfgVars, created, status, result, error, jobs, now, taskVars,
                envVars, dbJob, dbLogs, bus, storeVars, subVars, apiVars,
                idVars, dispVars>>

InitReader ==
    /\ db_manager = "None"
    /\ log_streamer = "None"
    /\ redis = NoRedis
    /\ created = TRUE
    /\ status = "running"
    /\ result = NoneVal
    /\ error = None
    /\ logs = <<>>
    /\ jobs = {JobId}
    /\ now = StartTime
    /\ tpc = "func"
    /\ rpc = "work"
    /\ rres = NoRes
    /\ hb = "none"
    /\ hbStart = 0
    /\ hbDue = 0
    /\ sess = NoSess
    /\ events = 0
    /\ extPhases = {}
    /\ before = [result |-> NoneVal, error |-> None]
    /\ leaves = 0
    /\ dbJob = NoRow
    /\ dbLogs = {}
    /\ dbTasks = {}
    /\ pubTasks = {}
    /\ pubSeq = 0
    /\ bus = <<>>
    /\ calls = <<>>
    /\ StoreIdle
    /\ SubIdle
    /\ ReaderIdle
    /\ ApiIdle
    /\ IdsIdle
    /\ DispatchIdle

\* job.logger.<level>(msg) in the job's function
ReaderJobLog(level) ==
    /\ Len(calls) < MaxReaderLogs
    /\ Log(PS, level, "step", "work")
    /\ UNCHANGED readerVars
    /\ ReaderFrame

\* get_job_logs(job_id), which returns job.logs, which returns self._logs: the
\* reader holds the job's own list.
GetJobLogs ==
    /\ JobId \in jobs
    /\ got' = "_logs"
    /\ seen' = logs
    /\ UNCHANGED <<rwrites, logs, calls, dbTasks, pubTasks, pubSeq>>
    /\ ReaderFrame

\* The reader appends to or clears the list it holds, which is the job's.
ReaderModify(op) ==
    /\ got = "_logs"
    /\ rwrites < MaxReaderWrites
    /\ rwrites' = rwrites + 1
    /\ logs' = IF op = "append" THEN Append(logs, "mine") ELSE <<>>
    /\ UNCHANGED <<got, seen, calls, dbTasks, pubTasks, pubSeq>>
    /\ ReaderFrame

NextReader ==
    \/ \E level \in Levels : ReaderJobLog(level)
    \/ GetJobLogs
    \/ \E op \in ReaderOps : ReaderModify(op)

SpecReader == InitReader /\ [][NextReader]_vars

----------------------------------------------------------------------------
\* The events a subscription is to deliver for the messages it handled: the
\* decoded data of the messages of a channel that are JSON, in order.
WellFormed(m) == m.type = "message" /\ Decodes(m.data)

Delivered(ms) ==
    LET good == SelectSeq(ms, WellFormed)
    IN  [i \in 1..Len(good) |-> good[i].data]

LastYielded == yielded[Len(yielded)]

\* The loop takes the next message before the timeout has elapsed.
Handles(m) ==
    /\ sub = "listening" /\ inbox # <<>> /\ Head(inbox) = m
    /\ ~TimedOut
    /\ inbox' = Tail(inbox)

\* C14: a subscription that gets a status event with status completed or failed
\* yields that event and then ends, whatever the clock says and without another
\* message; after a log event or a running status event it listens on. Once
\* ended it yields nothing more.
C14_TerminalEventEnds ==
    [][/\ \A st \in {"completed", "failed"} :
            Handles([type |-> "message", data |-> st])
                => (yielded' = Append(yielded, st) /\ sub' = "yielding")
       /\ (sub = "yielding" /\ sub' # "yielding") =>
            /\ yielded' = yielded
            /\ LastYielded \in {"completed", "failed"}
                    => (sub' = "ended" /\ subEnd' = "terminal")
            /\ LastYielded \in {"log", "running"} => sub' = "listening"
       /\ sub = "ended" => (sub' = "ended" /\ yielded' = yielded)]_vars

\* C14 witness: a subscription with a timeout yielded a log event, a running
\* status event and a failed status event and ended on the last, before any time
\* passed.
C14_Witness ==
    /\ sub = "ended" /\ subEnd = "terminal"
    /\ subTimeout = SubTimeout /\ subElapsed = 0
    /\ yielded = <<"log", "running", "failed">>

\* C15: a subscription with a timeout whose timeout has elapsed ends, also when
\* no message is published any more.
C15_TimeoutEnds ==
    (sub \in {"listening", "yielding"} /\ TimedOut) ~> (sub = "ended")

\* C16: a message that is no JSON is skipped: the subscription yields nothing
\* for it and listens on, and what it yields is always the well-formed messages
\* it handled, in order, those after a malformed one included.
C16_MalformedSkipped ==
    /\ [](yielded = Delivered(handled))
    /\ [][Handles([type |-> "message", data |-> "not json"])
            => (sub' = "listening" /\ subEnd' = subEnd /\ yielded' = yielded
                /\ handled' = Append(handled, Head(inbox)))]_vars

\* C16 witness: the subscription handled a malformed message and then a log
\* event, and yielded the log event.
C16_Witness ==
    /\ sub = "yielding"
    /\ Len(handled) = 4
    /\ handled[3] = [type |-> "message", data |-> "not json"]
    /\ handled[4] = [type |-> "message", data |-> "log"]
    /\ yielded = <<"log">>


\* C20: a reader of the job's logs gets a snapshot: as long as the reader does
\* not modify it, the sequence it holds stays what it was when the reader got
\* it, whatever the job logs; and the reader modifying its sequence leaves the
\* job's logs as they are.
C20_ReadersGetSnapshot ==
    [][/\ (got' # "none" /\ rwrites' = 0) => ReaderView(got', logs') = seen'
       /\ rwrites' # rwrites => logs' = logs]_vars


----------------------------------------------------------------------------
\* A step that is a call of the operation op.
Called(op) == napi' = napi + 1 /\ apiRet'.op = op

\* The log call of a step appended its one formatted entry.
EntryAppended ==
    logs' = Append(logs, formatted_message(apiRet'.arg, now, "call"))

\* The publish tasks a step created.
NewPubTasks == pubTasks' \ pubTasks

\* The log call of a step handed its entry to every configured sink other than
\* the memory, as a task that has not run.
EntryDispatched ==
    /\ dbTasks' = IF db_manager = "None" THEN dbTasks
                  ELSE dbTasks \cup {[n |-> Len(calls'), level |-> apiRet'.arg,
                                      message |-> "call"]}
    /\ Cardinality(dbTasks') = Cardinality(dbTasks) + (IF db_manager = "None" THEN 0 ELSE 1)
    /\ pubTasks \subseteq pubTasks'
    /\ Cardinality(NewPubTasks) = (IF log_streamer = "None" THEN 0 ELSE 1)
    /\ \A e \in NewPubTasks :
          e.kind = "log" /\ e.level = apiRet'.arg /\ e.message = "call"
    /\ dbLogs' = dbLogs /\ bus' = bus

\* C21 as stated: every log call, at every level, appends exactly one formatted
\* entry to the memory and hands the entry to every other configured sink
\* without waiting.
C21_EveryLevelAppends ==
    [][Called("log") => (EntryAppended /\ EntryDispatched)]_vars

\* C21 amended: a log call at INFO, WARNING or ERROR appends exactly one
\* formatted entry to the memory and, made in the event loop's thread, hands the
\* entry to every other configured sink without waiting; a call at DEBUG, which
\* is below the logger's level, appends nothing and hands nothing to any sink.
C21_EnabledLevelAppends ==
    [][Called("log") =>
          IF isEnabledFor(apiRet'.arg)
          THEN EntryAppended /\ (apiRet'.loop => EntryDispatched)
          ELSE logs' = logs /\ dbTasks' = dbTasks /\ pubTasks' = pubTasks]_vars

\* C21 witness: with both sinks configured an ERROR line was logged in the event
\* loop's thread: it is the last entry of the logs and a task of each sink
\* holds it.
C21_Witness ==
    /\ db_manager = "ok" /\ log_streamer = "ok"
    /\ apiRet.op = "log" /\ apiRet.arg = "ERROR" /\ apiRet.loop
    /\ logs # <<>> /\ logs[Len(logs)] = formatted_message("ERROR", now, "call")
    /\ \E t \in dbTasks : t.level = "ERROR" /\ t.n = Len(calls)
    /\ \E e \in pubTasks : e.kind = "log" /\ e.level = "ERROR"


\* The step in which the work of the run returns to the runner.
WorkReturned == rpc = "work" /\ rres.kind = "pending" /\ rres'.kind = "return"

C23_LeavesRunningOnce == leaves <= 1


Getters == {"get_job_logs", "get_job_status", "get_job"}
Setters == {"set_job_status", "set_job_result", "set_job_error"}

\* A step that is a call of a getter or a setter.
CalledOneOf(ops) == napi' = napi + 1 /\ apiRet'.op \in ops

C26_SettersOnlySetField ==
    [][/\ Called("set_job_result") =>
            /\ result' = IF apiRet'.id \in jobs THEN apiRet'.arg ELSE result
            /\ error' = error
       /\ Called("set_job_error") =>
            /\ error' = IF apiRet'.id \in jobs THEN apiRet'.arg ELSE error
            /\ result' = result
       /\ CalledOneOf({"set_job_result", "set_job_error"}) =>
            /\ status' = status /\ logs' = logs
            /\ UNCHANGED <<busVars, dbVars>>]_vars

\* C26 witness: with a store and a streamer configured the result of the
\* registered job was set: the row in the store has no result, and nothing is
\* or waits to be published.
C26_Witness ==
    /\ db_manager = "ok" /\ log_streamer = "ok"
    /\ apiRet.op = "set_job_result" /\ apiRet.id = JobId /\ apiRet.val = Present(TRUE)
    /\ result = [type |-> "str", val |-> "ok"]
    /\ dbJob.exists /\ dbJob.result = NoneVal
    /\ pubTasks = {} /\ bus = <<>> /\ dbTasks = {}

\* The status event at the end of the bus after a step that published one.
StatusPublished ==
    /\ Len(bus') = Len(bus) + 1
    /\ bus'[Len(bus')].kind = "status"

\* C27: an assignment of the status of a registered job takes effect at once;
\* with a streamer, in the event loop's thread, it schedules exactly one status
\* event with the assigned status and publishes nothing itself; with no
\* streamer it schedules nothing.  The event, once published, has the status
\* assigned and the job's result and error.
C27_StatusAssignmentPublishes ==
    [][/\ (Called("set_job_status") /\ apiRet'.id \in jobs) =>
            /\ status' = apiRet'.arg
            /\ bus' = bus
            /\ pubTasks \subseteq pubTasks'
            /\ Cardinality(NewPubTasks) =
                  (IF log_streamer # "None" /\ apiRet'.loop THEN 1 ELSE 0)
            /\ \A e \in NewPubTasks : e.kind = "status" /\ e.status = apiRet'.arg
       /\ StatusPublished =>
            \E e \in pubTasks :
               /\ e.kind = "status" /\ pubTasks' = pubTasks \ {e}
               /\ bus'[Len(bus')].status = e.status
               /\ bus'[Len(bus')].result = result
               /\ bus'[Len(bus')].error = error]_vars

\* C27 witness: the error of the job was set, then its status was set to failed
\* in the event loop's thread, and the event was published: it is the only one
\* on the bus and has status failed and the error.
C27_Witness ==
    /\ log_streamer = "ok"
    /\ apiRet.op = "set_job_status" /\ apiRet.arg = "failed" /\ apiRet.loop
    /\ status = "failed" /\ error = "boom" /\ result = NoneVal
    /\ pubTasks = {} /\ Len(bus) = 1
    /\ bus[1].kind = "status" /\ bus[1].status = "failed"
    /\ bus[1].error = "boom" /\ bus[1].result = NoneVal

\* C28: a log call or a status assignment made in a thread that runs no event
\* loop schedules nothing for the store nor for the bus and writes and
\* publishes nothing, while the log line, if its level is enabled, is appended
\* to the memory and the status is updated.
C28_NoLoopDropsDelivery ==
    [][/\ (CalledOneOf({"log", "set_job_status"}) /\ ~apiRet'.loop) =>
            /\ dbTasks' = dbTasks /\ dbLogs' = dbLogs /\ dbJob' = dbJob
            /\ pubTasks' = pubTasks /\ bus' = bus
       /\ (Called("log") /\ ~apiRet'.loop /\ isEnabledFor(apiRet'.arg)) => EntryAppended
       /\ (Called("set_job_status") /\ ~apiRet'.loop /\ apiRet'.id \in jobs) =>
            status' = apiRet'.arg]_vars

\* C28 witness: with a store and a streamer configured, the status was set to
\* completed and then a WARNING line logged, both outside the event loop: the
\* job is completed and has the line, and no task of a sink exists.
C28_Witness ==
    /\ db_manager = "ok" /\ log_streamer = "ok"
    /\ napi = 2
    /\ apiRet.op = "log" /\ apiRet.arg = "WARNING" /\ ~apiRet.loop
    /\ status = "completed"
    /\ logs = <<formatted_message("WARNING", now, "call")>>
    /\ dbTasks = {} /\ pubTasks = {} /\ dbLogs = {} /\ bus = <<>>


\* C25: no two Job instances alive at the same time have the same id, and
\* registering a Job under an id never replaces another Job registered under
\* that id.
C25_OneInstancePerId ==
    /\ [](\A i, j \in 1..Len(insts) : insts[i] = insts[j] => i = j)
    /\ [][\A id \in Ids : registry[id] # 0 => registry'[id] = registry[id]]_vars


C30_ToolFailureReported ==
    /\ [](tpc = "raised" =>
            /\ texc.state = "raised"
            /\ reports = <<[progress |-> 0, message |-> ErrorReport(texc.msg)]>>
            /\ created => status = "failed")
    /\ [][/\ (tpc = "func" /\ tpc' = "report") =>
               /\ texc'.state = "caught"
               /\ reports' = Append(reports, [progress |-> 0,
                                              message |-> ErrorReport(texc'.msg)])
               /\ UNCHANGED <<result, error, logs, dbVars, bus>>
               /\ IF created
                  THEN /\ status' = "failed"
                       /\ pubTasks \subseteq pubTasks'
                       /\ Cardinality(NewPubTasks) =
                             (IF log_streamer = "None" THEN 0 ELSE 1)
                       /\ \A e \in NewPubTasks : e.kind = "status" /\ e.status = "failed"
                  ELSE UNCHANGED <<status, pubTasks>>
          /\ (tpc = "report" /\ tpc' # "report") =>
               /\ tpc' = "raised"
               /\ texc' = [state |-> "raised", msg |-> texc.msg]
               /\ UNCHANGED <<jobVars, reports, dbVars, busVars>>
          /\ tpc \notin {"func", "report"} => reports' = reports]_vars

\* C30 witness: the tool function of a job logged a line and raised "boom": the
\* job is failed, with its line and without an error or a result, the report is
\* made, the exception is raised again, and the failed event is on the bus.
C30_Witness ==
    /\ log_streamer = "ok"
    /\ created /\ tpc = "raised"
    /\ texc = [state |-> "raised", msg |-> "boom"]
    /\ reports = <<[progress |-> 0, message |-> "Error in tool: boom"]>>
    /\ status = "failed" /\ error = None /\ result = NoneVal
    /\ Len(logs) = 1
    /\ \E i \in 1..Len(bus) : bus[i].kind = "status" /\ bus[i].status = "failed"

----------------------------------------------------------------------------
\* The logs hold a heartbeat line.
HasHeartbeatLine == \E i \in 1..Len(logs) : IsHeartbeatLine(logs[i])

\* C31: when the work of a run returns while the status is still running and
\* more than one heartbeat interval after the heartbeat began, the job's logs
\* hold at least one heartbeat line.
C31_HeartbeatLineWhenWorkOutlastsInterval ==
    [][(WorkReturned /\ status = "running" /\ hb = "sleeping"
            /\ now > hbStart + HeartbeatInterval)
        => HasHeartbeatLine]_vars

----------------------------------------------------------------------------
\* The messages of a channel among ms, in order.
ChannelMessages(ms) == SelectSeq(ms, LAMBDA m : m.type = "message")

\* What the jobs published for job id while the subscription was open.
PublishedFor(id) == SelectSeq(bus, LAMBDA m : m.open /\ m.job_id = id)

\* C32: what the subscription for a job took from its connection, and so what
\* it yielded, are events the job itself published on its log and status
\* channels, in the order of their publication, without a gap and without an
\* event of the other job, however the two jobs' publications interleave.
C32_OnlyOwnEventsInOrder ==
    /\ IsPrefix(ChannelMessages(handled), PublishedFor(JobId))
    /\ ChannelMessages(handled) \o ChannelMessages(inbox) = PublishedFor(JobId)
          \/ sub = "ended"
    /\ yielded = Delivered(handled)
    /\ \A i \in 1..Len(handled) :
          handled[i].type = "message" =>
              /\ handled[i].job_id = JobId
              /\ handled[i].channel \in {"job:JOB-1:logs", "job:JOB-1:status"}

\* C32 witness: the other job published a log event, then the job a log event,
\* then the other job its completed status: the subscription yielded the job's
\* log event and listens on.
C32_Witness ==
    /\ sub = "listening" /\ inbox = <<>>
    /\ Len(bus) = 3
    /\ bus[1].job_id = "JOB-2" /\ bus[1].data = "log" /\ bus[1].open
    /\ bus[2].job_id = JobId /\ bus[2].data = "log"
    /\ bus[3].job_id = "JOB-2" /\ bus[3].data = "completed"
    /\ yielded = <<"log">>

----------------------------------------------------------------------------
\* The step in which the work of the run raises to the runner.
WorkRaised == rpc = "work" /\ rres.kind = "pending" /\ rres'.kind = "raise"

\* The step in which the runner logs its error line.
RunnerErrorLogged ==
    /\ Len(calls') = Len(calls) + 1
    /\ calls'[Len(calls')].src = "runner"

\* The failed status events on the bus carry the job's error, and so does a
\* failed row of the durable store.
FailureCarriesError ==
    /\ \A i \in 1..Len(bus) :
          (bus[i].kind = "status" /\ bus[i].status = "failed") =>
              (bus[i].error = error /\ error \in ErrorMessages)
    /\ (dbJob.exists /\ dbJob.status = "failed") =>
          (dbJob.error = error /\ error \in ErrorMessages)

\* C33 as stated: when the runner sets the status failed the error is set and
\* not empty; the failed status events and the failed row carry the error; the
\* error line is logged after the persist, in a state whose status is terminal.
C33_FailureOrderAsStated ==
    /\ [][WorkRaised => (status' = "failed" /\ error' # None /\ error' # "")]_vars
    /\ [][RunnerErrorLogged =>
            (rpc' \in {"join_hb", "done"} /\ status' \in {"completed", "failed"})]_vars
    /\ []FailureCarriesError

\* C33 amended: in the step in which the work raises the runner sets the error
\* to the exception's message, which may be the empty string, sets the status
\* failed, which schedules the failed event, and with a store enters the
\* persist, without a line logged yet; the error line is logged when the
\* persist is over, with the same error, and with the status failed unless
\* set_job_status was called during the run; the failed status events on the
\* bus and a failed row of the store carry the error.
C33_FailureOrder ==
    /\ [][WorkRaised =>
            /\ error' = rres'.exc /\ error' \in ErrorMessages
            /\ status' = "failed"
            /\ \A e \in NewPubTasks :
                  e.kind = "status" => (e.status = "failed" /\ e.error = error')
            /\ log_streamer # "None" => \E e \in NewPubTasks : e.kind = "status"
            /\ db_manager # "None" =>
                  (rpc' = "p3_get" /\ logs' = logs /\ calls' = calls /\ dbJob' = dbJob)
            /\ db_manager = "None" => RunnerErrorLogged]_vars
    /\ [][RunnerErrorLogged =>
            /\ rpc \in {"work", "p3_get", "p3_commit"}
            /\ rpc' \in {"join_hb", "done"}
            /\ error' = rres'.exc /\ rres'.kind = "raise"
            /\ calls'[Len(calls')].level = "ERROR"
            /\ calls'[Len(calls')].msg = "[System] Error: " \o error'
            /\ logs' = Append(logs, formatted_message("ERROR", now, "[System] Error: " \o error'))
            /\ (status' = "failed" \/ "during" \in extPhases)
            /\ rpc = "p3_commit" => dbJob'.error = error]_vars
    /\ []FailureCarriesError

\* C33 witness: the work raised "boom" under a healthy store and bus: the run is
\* over, the row and the failed event carry "boom", and the error line is the
\* last of the logs.
C33_Witness ==
    /\ db_manager = "ok" /\ log_streamer = "ok"
    /\ rpc = "done" /\ rres.kind = "raise" /\ extPhases = {}
    /\ status = "failed" /\ error = "boom"
    /\ dbJob.exists /\ dbJob.status = "failed" /\ dbJob.error = "boom"
    /\ \E i \in 1..Len(bus) :
          bus[i].kind = "status" /\ bus[i].status = "failed" /\ bus[i].error = "boom"
    /\ logs # <<>> /\ HasErrorLine(<<logs[Len(logs)]>>, "boom")

----------------------------------------------------------------------------
\* C34: when the work returns a value that is neither a string nor a mapping,
\* the result stays what it was, a status that is running becomes completed
\* (which with a store is then persisted), and the value the task of the run is
\* to return is the work's value; when the task then finishes by returning, it
\* returns that value.
C34_OtherValueNotStored ==
    /\ [][(WorkReturned /\ rres'.ret.type \notin {"str", "dict"}) =>
            /\ result' = result
            /\ rres'.ret \in {NoneVal, [type |-> "int", val |-> "42"]}
            /\ status = "running" => status' = "completed"
            /\ (status = "running" /\ db_manager # "None") => rpc' = "p2_get"
            /\ status # "running" => status' = status]_vars
    /\ [][(rres.kind = "return" /\ rres' # rres) => rres'.kind = "cancel"]_vars
    /\ [](rres.kind = "return" /\ rres.ret.type \notin {"str", "dict"} =>
             result = before.result)

\* C34 witness: the work returned the number 42: the run is over, completed,
\* the task returned 42, and the result is still None.
C34_Witness ==
    /\ rpc = "done" /\ rres.kind = "return"
    /\ rres.ret = [type |-> "int", val |-> "42"]
    /\ status = "completed" /\ result = NoneVal /\ extPhases = {}

----------------------------------------------------------------------------
\* The subscription ended on the terminal status event at place k of the bus.
EndedAt(k) ==
    /\ sub = "ended" /\ subEnd = "terminal"
    /\ Len(ChannelMessages(handled)) = k
    /\ bus[k].kind = "status" /\ bus[k].status \in {"completed", "failed"}

\* C35: a subscription made before the run gets the events in the order of
\* their publication and ends with the first completed or failed status event;
\* what is published after that event, log events of the run included, it
\* never takes from its connection and never yields.
C35_LateEventsNotYielded ==
    /\ [](LET msgs == ChannelMessages(handled)
          IN  /\ Len(msgs) <= Len(bus)
              /\ \A i \in 1..Len(msgs) :
                    /\ msgs[i].n = i
                    /\ msgs[i].data = (IF bus[i].kind = "log" THEN "log" ELSE bus[i].status)
                    /\ i < Len(msgs) => msgs[i].data \notin {"completed", "failed"}
              /\ Len(yielded) = Len(msgs)
              /\ \A i \in 1..Len(msgs) : yielded[i] = msgs[i].data)
    /\ [][sub = "ended" => UNCHANGED <<sub, handled, yielded>>]_vars

\* C35 witness: the work logged a line and then raised; the failed status event
\* was published before the event of the work's line and before that of the
\* runner's error line: the subscription ended on the failed event, and the
\* two log events on the bus were not yielded.
C35_Witness ==
    /\ EndedAt(2)
    /\ Len(bus) = 4 /\ pubTasks = {}
    /\ bus[2].status = "failed"
    /\ bus[3].kind = "log" /\ bus[3].n < bus[2].n
    /\ bus[4].kind = "log" /\ bus[4].level = "ERROR" /\ bus[4].n > bus[2].n
    /\ yielded = <<"running", "failed">>

----------------------------------------------------------------------------
\* The step in which the task of the run is cancelled while it awaits the work.
CancelledAtWork == rpc = "work" /\ rres.kind = "pending" /\ rres'.kind = "cancel"

\* C36: a cancellation of the task of a run while it awaits the work cancels a
\* pending heartbeat and leaves the status, the result, the error, the logs,
\* the store and the publish tasks as they are; and from then on no step of
\* the runner, the heartbeat or the tool dispatch changes the status, result
\* or error, writes the job's row or schedules a status event: only a
\* set_job_status call does.
C36_CancelledRunStaysRunning ==
    /\ [][CancelledAtWork =>
            /\ hb \in {"created", "sleeping"} => (hb' = "cancelling" /\ rpc' = "join_hb")
            /\ hb \notin {"created", "sleeping"} => (hb' = hb /\ rpc' = "done")
            /\ UNCHANGED <<status, result, error, logs, dbJob, sess, pubTasks, bus>>]_vars
    /\ [][(rres.kind = "cancel" /\ ~(\E s \in ExtStatuses : SetJobStatus(s))) =>
            /\ UNCHANGED <<status, result, error, dbJob, sess, rres>>
            /\ \A e \in NewPubTasks : e.kind # "status"
            /\ hb' \in {hb, "cancelled"}
            /\ ~HeartbeatLineAppended]_vars

\* C36 witness: the task was cancelled while the work was pending under a
\* healthy store and bus: the run is over, the heartbeat cancelled, the status
\* running in memory and in the store, and only the running event is on the bus.
C36_Witness ==
    /\ db_manager = "ok" /\ log_streamer = "ok"
    /\ rpc = "done" /\ rres.kind = "cancel" /\ hb = "cancelled" /\ extPhases = {}
    /\ tpc = "cancelled"
    /\ status = "running" /\ result = NoneVal /\ error = None
    /\ dbJob.exists /\ dbJob.status = "running"
    /\ pubTasks = {} /\ Len(bus) = 1 /\ bus[1].status = "running"

----------------------------------------------------------------------------
\* C37: the status events of the job are on the bus in the order in which the
\* statuses were assigned; in particular the running event of a run is not
\* behind its completed or failed event.
C37_StatusEventsInAssignmentOrder ==
    \A i, j \in 1..Len(bus) :
        (i < j /\ bus[i].kind = "status" /\ bus[j].kind = "status")
            => (bus[i].n < bus[j].n
                /\ ~(bus[i].status \in {"completed", "failed"} /\ bus[j].status = "running"))

----------------------------------------------------------------------------
\* C38: every line in the logs of a Job instance was logged through that
\* instance's logger, whatever instances were created with the same id.
C38_LinesInOwnLogs ==
    \A k \in 1..Len(ilogs) : \A n \in 1..Len(ilogs[k]) : ilogs[k][n] = k

----------------------------------------------------------------------------
\* The step in which the runner of a run begins.
RunnerBegins == rpc = "created" /\ rpc' # "created"

\* The event this step puts on the bus.
EventPublished == bus'[Len(bus')]

\* C39: the runner changes the error only when the work raises and the result
\* only when the work returns a string or a mapping: a run begins with the
\* status running and the result and error the job had, so a run that
\* completes after a failed one leaves the status completed and the error of
\* the failure; every status event is published with the result and error the
\* job has then, and a persist writes the job's error into its row.
C39_RerunKeepsResultAndError ==
    /\ [][RunnerBegins => (status' = "running" /\ result' = result /\ error' = error)]_vars
    /\ [][error' # error => WorkRaised]_vars
    /\ [][result' # result => (WorkReturned /\ IsStrOrDict(rres'.ret))]_vars
    /\ [][(WorkReturned /\ status = "running") =>
            (status' = "completed" /\ error' = error)]_vars
    /\ [][(Len(bus') = Len(bus) + 1 /\ EventPublished.kind = "status") =>
            (EventPublished.error = error /\ EventPublished.result = result)]_vars
    /\ [][dbJob' # dbJob =>
            (dbJob'.status = status /\ dbJob'.error = error /\ dbJob'.result = result)]_vars

\* C39 witness: a run failed with "boom" and a second run of the job returned
\* "ok": the job is completed with result "ok" and error "boom", so is its row,
\* and the running and completed events of the second run carry "boom".
C39_Witness ==
    /\ db_manager = "ok"
    /\ rpc = "done" /\ rres.kind = "return" /\ pubTasks = {}
    /\ status = "completed" /\ result = [type |-> "str", val |-> "ok"] /\ error = "boom"
    /\ dbJob = [exists |-> TRUE, status |-> "completed",
                result |-> [type |-> "str", val |-> "ok"], error |-> "boom"]
    /\ \E i, j \in 1..Len(bus) :
          /\ i < j
          /\ bus[i].kind = "status" /\ bus[i].status = "failed" /\ bus[i].error = "boom"
          /\ bus[j].kind = "status" /\ bus[j].status = "running" /\ bus[j].error = "boom"
    /\ bus[Len(bus)].kind = "status" /\ bus[Len(bus)].status = "completed"
    /\ bus[Len(bus)].error = "boom" /\ bus[Len(bus)].result.val = "ok"

----------------------------------------------------------------------------
\* C40: with a healthy store, the job's row is in the store when the job is in
\* the registry, when the dispatch is past its persist (so when the tool
\* function runs), and whenever the job's logger was called, a write_log task
\* exists or a log row is in the store.
C40_RowBeforeRegistryAndLogs ==
    db_manager = "ok" =>
        /\ JobId \in jobs => dbJob.exists
        /\ tpc \notin {"init", "persist_get", "persist_commit"} => dbJob.exists
        /\ (calls # <<>> \/ dbTasks # {} \/ dbLogs # {}) => dbJob.exists
        /\ tpc \in {"init", "persist_get", "persist_commit"} =>
              (JobId \notin jobs /\ rpc = "idle" /\ calls = <<>>)

\* C40 witness: under a healthy store the job is registered, the work logged a
\* line and its row is in the store's job_logs, beside the job's row.
C40_Witness ==
    /\ db_manager = "ok" /\ JobId \in jobs /\ rpc = "work"
    /\ dbJob.exists
    /\ \E r \in dbLogs : r.level = "WARNING" /\ r.message = "step"

============================================================================
